---- MODULE Spec2Model ----
(***************************************************************************)
(* Model of the extension host process supervisor                          *)
(* (ExtensionHostProcessManager, threadService.ts) and of the local        *)
(* terminal backend (LocalTerminalBackend, localTerminalBackend.ts).       *)
(*                                                                         *)
(* The supervisor is driven by its callers (postMessage,                   *)
(* startExtensionHostProcess, terminate), by the child process handle      *)
(* (messages, error and exit events, in any number and order) and by the   *)
(* startup timer.  SpecSup is the whole supervisor; SpecHandshake is its   *)
(* message path and SpecLifecycle its process lifecycle, each with the     *)
(* inputs the other does not read left out: the handlers of the one write  *)
(* no variable the handlers of the other read.                             *)
(*                                                                         *)
(* SpecPty is the terminal backend's session registry, driven by its       *)
(* callers and by the pty host's replies and per-session event streams.    *)
(* SpecDetach is its acceptDetachInstanceReply, SpecPersist its            *)
(* persistTerminalState next to sessions being created and exiting.        *)
(* SpecRevive is getTerminalLayoutInfo, await by await, in a window whose  *)
(* workspace storage an earlier window has written; every awaited reply    *)
(* may be a rejection, and calls overlap.  SpecOneShot is the same next to *)
(* persistTerminalState, for a storage that holds one session's state.     *)
(* SpecStall is getTerminalLayoutInfo while the environment resolution of  *)
(* a state's last entry never settles and every other reply arrives in     *)
(* the end.  SpecHealth is the backend's reaction to the pty host's        *)
(* health signals, in any number and order.  SpecReviveAny is SpecRevive   *)
(* for a stored session of any launch configuration.  SpecLayout is        *)
(* setTerminalLayoutInfo and the update calls, SpecAutoReplies the         *)
(* listener on configuration changes, SpecResolve the listener on the      *)
(* pty host's resolve-variables requests, each with overlapping calls.     *)
(* SpecBackend runs the registry, the storage calls, the layout and        *)
(* update calls and the health signals side by side, with MaxCalls         *)
(* calls, events and signals in all.                                       *)
(*                                                                         *)
(* Promises: a done-callback registered on the pending                     *)
(* initializeExtensionHostProcess promise runs when the promise completes, *)
(* in the order of registration, inside the handler that completes it.     *)
(***************************************************************************)
EXTENDS Naturals, Integers, Sequences, FiniteSets

\* ------------------------------------------------------------------ bounds
MaxPost == 3        \* postMessage calls; the n-th call submits message n
MaxChildMsgs == 3   \* messages the child sends
MaxExits == 2       \* 'exit' events signalled by the child process handle
MaxErrors == 3      \* 'error' events signalled by the child process handle
MaxTerminate == 2   \* terminate() calls
MaxSessions == 2    \* session ids of the pty host: 1..MaxSessions
MaxPtys == 2        \* LocalPty instances created, calls in flight included
MaxPtyEvents == 2   \* events received from the pty host
MaxDetach == 3      \* acceptDetachInstanceReply calls; request ids are 1..MaxDetach
MaxLayoutCalls == 2 \* getTerminalLayoutInfo calls
MaxPersist == 1     \* persistTerminalState calls
MaxHostSignals == 5 \* health signals the pty host sends
MaxSetLayout == 2   \* setTerminalLayoutInfo calls
MaxUpdates == 2     \* updateTitle, updateIcon and updateProperty calls
MaxCalls == 2       \* calls and events of the backend taken together
MaxConfigChanges == 2 \* configuration change events
MaxResolve == 2     \* resolve-variables requests of the pty host

\* What the child can send: the two handshake sentinels, a logging entry
\* ({type: '__$console'}) and any other message.
ChildMsgs == {"ready", "initialized", "log", "other"}

\* Error texts of the 'error' events (toErrorMessage(err)).
ErrorTexts == {"e1", "e2"}

SessionIds == 1..MaxSessions

\* The per-session event streams of the pty host: onProcessData,
\* onDidChangeProperty, onProcessExit, onProcessReady, onProcessReplay,
\* onProcessOrphanQuestion.
PtyEventKinds == {"data", "property", "exit", "ready", "replay", "orphan"}

VARIABLES
    \* ---- the environment service: extensionDevelopmentPath and
    \* extensionTestsPath set or not, debugExtensionHost.break, isBuilt
    environment,
    \* ---- ExtensionHostProcessManager fields
    isExtensionDevelopmentHost,
    isExtensionDevelopmentTestFromCli,
    isExtensionDevelopmentDebugging,
    initializeExtensionHostProcess,   \* the promise: "none" | "pending" | "done"
    promiseListeners,                 \* messages of the done-callbacks waiting on the promise
    extensionHostProcessHandle,       \* "none" | "forked"
    extensionHostProcessReady,
    initializeTimer,                  \* "none" | "armed" | "fired" | "cleared"
    lastExtensionHostError,           \* "none" (undefined) or an error text
    unsentMessages,
    terminating,
    \* ---- what the supervisor did to its collaborators
    sentToChild,          \* application messages passed to handle.send, in order
    initPayloadsSent,     \* init payloads passed to handle.send
    terminateSentinels,   \* {type: '__$terminate'} messages passed to handle.send
    callbackCount,        \* calls of onExtensionHostMessage
    logCount,             \* calls of logExtensionHostMessage
    crashNotifications,   \* messageService.show(Error, crash message + reload action)
    errorNotifications,   \* messageService.show(Error, "Error from the extension host")
    startupWarnings,      \* messageService.show(Warning, "did not start in 10 seconds")
    windowCloses,         \* windowService.getWindow().close()
    exitCodeSignals,      \* ipc.send('vscode:exit', code)
    \* ---- history of the inputs
    nPosted,              \* postMessage calls so far
    nPreReady,            \* how many of them were made while not ready
    childLog,             \* the messages received from the child, in order
    nExits,
    nErrors,
    nTerminate,
    terminateSinceStart,  \* terminate() has been called since startExtensionHostProcess
    \* ---- LocalTerminalBackend
    ptys,                 \* _ptys: session id -> index of its LocalPty in localPtys, 0 when absent
    localPtys,            \* the LocalPty instances created so far: the id of each, how
                          \* many events it has handled and the kind of the last one
    pendingCreate,        \* createProcess calls awaiting the pty host
    pendingAttach,        \* ids of the attachToProcess calls awaiting the pty host
    exitWhileAttaching,   \* ids of the awaiting attachToProcess calls for which an
                          \* exit event has been received since the call was made
    hostIds,              \* ids the pty host has assigned or attached
    \* ---- history of the calls
    ptyHistory,           \* per LocalPty: the call that returned it, whether an
                          \* exit event for its id was received since, and whether
                          \* one was received while the call awaited the pty host
    lastAttach,           \* the attachToProcess call that completed last: the host's
                          \* reply, what it returned ("pty", "undefined"), a throw
    \* ---- history of the inputs
    nPtyEvents,           \* events received from the pty host so far
    lastPtyEvent,         \* the last of them: its kind and session id
    \* ---- what the backend did to its collaborators
    hostCalls,            \* requests sent to the pty host by acceptDetachInstanceReply
                          \* and persistTerminalState, in order (those of a
                          \* getTerminalLayoutInfo call are kept in layoutCalls)
    warnings,             \* calls of logService.warn
    notifications,        \* the handles notificationService.prompt returned
    \* ---- the storage service, workspace scope
    bufferState,          \* the value under TerminalStorageKeys.TerminalBufferState
    layoutState,          \* the value under TerminalStorageKeys.TerminalLayoutInfo
    \* ---- calls of the backend in flight
    layoutCalls,          \* the getTerminalLayoutInfo calls made so far: where each
                          \* one stands, its parsed state and what it returned
    pendingPersist,       \* the ids of each persistTerminalState call awaiting the host
    \* ---- history of the calls
    revivedSinceStore,    \* a revival has succeeded and no state was stored since
    nPersist,             \* persistTerminalState calls so far
    nDetach,              \* acceptDetachInstanceReply calls so far
    lastDetach,           \* the last of them: its arguments and whether it threw
    \* ---- the backend's view of the pty host's health
    isPtyHostUnresponsive,     \* this._isPtyHostUnresponsive
    unresponsiveNotification,  \* the constructor's local of that name: the index in
                               \* notifications of the handle it holds, 0 for undefined
    ptyHostFired,         \* how often each of the backend's own events
                          \* onPtyHostUnresponsive, onPtyHostResponsive and
                          \* onPtyHostRestart fired
    ptyHostLog,           \* calls of logService.info and logService.error
    \* ---- history of the health signals
    nHostSignals,         \* health signals received from the pty host so far
    lastHostSignal,       \* the last of them
    unresponsiveSince,    \* an Unresponsive signal was received and no Responsive
                          \* or Restart signal after it
    \* ---- calls of the backend's other methods
    setLayoutCalls,       \* the setTerminalLayoutInfo calls made so far: the layout
                          \* each was given, the arguments it sent to the pty host
                          \* and where it stands
    nUpdates,             \* updateTitle, updateIcon and updateProperty calls so far
    lastUpdate,           \* the request the last of them sent to the pty host
    \* ---- auto replies
    autoRepliesConfig,    \* configurationService: terminal.integrated.autoReplies
    hostAutoReplies,      \* the auto replies installed on the pty host
    installHandlers,      \* per configuration change that affects the auto replies:
                          \* the configuration its handler read, the key whose
                          \* installation it awaits, and whether it has returned
    nConfigChanges,       \* configuration change events so far
    \* ---- resolve-variables requests
    resolveRequests,      \* per request of the pty host: the event and how far its
                          \* handler has come
    resolvedReplies       \* the acceptPtyHostResolvedVariables calls, in order

supVars == << environment,
              isExtensionDevelopmentHost, isExtensionDevelopmentTestFromCli,
              isExtensionDevelopmentDebugging,
              initializeExtensionHostProcess, promiseListeners,
              extensionHostProcessHandle, extensionHostProcessReady,
              initializeTimer, lastExtensionHostError, unsentMessages, terminating,
              sentToChild, initPayloadsSent, terminateSentinels, callbackCount,
              logCount, crashNotifications, errorNotifications, startupWarnings,
              windowCloses, exitCodeSignals,
              nPosted, nPreReady, childLog, nExits, nErrors, nTerminate,
              terminateSinceStart >>

ptyVars == << ptys, localPtys, pendingCreate, pendingAttach, exitWhileAttaching, hostIds,
              ptyHistory, lastAttach, nPtyEvents, lastPtyEvent >>

backendVars == << hostCalls, warnings, notifications, bufferState, layoutState,
                  layoutCalls, pendingPersist, revivedSinceStore, nPersist, nDetach,
                  lastDetach >>

healthVars == << isPtyHostUnresponsive, unresponsiveNotification, ptyHostFired,
                 ptyHostLog, nHostSignals, lastHostSignal, unresponsiveSince >>

configVars == << autoRepliesConfig, hostAutoReplies, installHandlers, nConfigChanges >>

resolveVars == << resolveRequests, resolvedReplies >>

serviceVars == << setLayoutCalls, nUpdates, lastUpdate, configVars, resolveVars >>

vars == << supVars, ptyVars, backendVars, healthVars, serviceVars >>

\* ------------------------------------------------------------ supervisor

modeVars == << environment, isExtensionDevelopmentHost,
               isExtensionDevelopmentTestFromCli, isExtensionDevelopmentDebugging >>
reactionVars == << crashNotifications, windowCloses, exitCodeSignals >>

Environments ==
    [ extensionDevelopmentPath : BOOLEAN, extensionTestsPath : BOOLEAN,
      debugBreak : BOOLEAN, isBuilt : BOOLEAN ]

\* Mutant: the test-from-CLI flag computed without looking at debugExtensionHost.break.
TestFromCli_IgnoresDebugBreak(env) ==
    env.extensionDevelopmentPath /\ env.extensionTestsPath

\* isExtensionDevelopmentTestFromCli as the constructor computes it
TestFromCli(env) ==
    env.extensionDevelopmentPath /\ env.extensionTestsPath /\ ~env.debugBreak

\* The constructor: the mode flags from the environment service, an empty
\* backlog, not ready.
SupInit ==
    /\ environment \in Environments
    /\ isExtensionDevelopmentHost = environment.extensionDevelopmentPath
    /\ isExtensionDevelopmentDebugging = environment.debugBreak
    /\ isExtensionDevelopmentTestFromCli = TestFromCli(environment)
    /\ initializeExtensionHostProcess = "none"
    /\ promiseListeners = << >>
    /\ extensionHostProcessHandle = "none"
    /\ extensionHostProcessReady = FALSE
    /\ initializeTimer = "none"
    /\ lastExtensionHostError = "none"
    /\ unsentMessages = << >>
    /\ terminating = FALSE
    /\ sentToChild = << >>
    /\ initPayloadsSent = 0
    /\ terminateSentinels = 0
    /\ callbackCount = 0
    /\ logCount = 0
    /\ crashNotifications = 0
    /\ errorNotifications = 0
    /\ startupWarnings = 0
    /\ windowCloses = 0
    /\ exitCodeSignals = 0
    /\ nPosted = 0
    /\ nPreReady = 0
    /\ childLog = << >>
    /\ nExits = 0
    /\ nErrors = 0
    /\ nTerminate = 0
    /\ terminateSinceStart = FALSE

\* The part of the state postMessage reads and writes.
MsgState ==
    [ ready     |-> extensionHostProcessReady,
      promise   |-> initializeExtensionHostProcess,
      listeners |-> promiseListeners,
      unsent    |-> unsentMessages,
      sent      |-> sentToChild ]

SetMsgState(st) ==
    /\ extensionHostProcessReady' = st.ready
    /\ initializeExtensionHostProcess' = st.promise
    /\ promiseListeners' = st.listeners
    /\ unsentMessages' = st.unsent
    /\ sentToChild' = st.sent

\* Mutant: once the promise exists the message is sent to the handle at once,
\* without waiting for the promise to complete.
postMessage_SendsOncePromiseExists(st, m) ==
    IF st.ready \/ st.promise # "none"
      THEN [st EXCEPT !.sent = Append(@, m)]
      ELSE [st EXCEPT !.unsent = Append(@, m)]

\* postMessage(msg): send when ready; else, when the promise exists, send from a
\* done-callback of the promise (run at once on a completed promise); else buffer.
postMessage(st, m) ==
    IF st.ready
      THEN [st EXCEPT !.sent = Append(@, m)]
      ELSE IF st.promise = "pending"
        THEN [st EXCEPT !.listeners = Append(@, m)]
        ELSE IF st.promise = "done"
          THEN [st EXCEPT !.sent = Append(@, m)]
          ELSE [st EXCEPT !.unsent = Append(@, m)]

\* this.unsentMessages.forEach(m => this.postMessage(m))
RECURSIVE forEachPostMessage(_, _)
forEachPostMessage(st, msgs) ==
    IF msgs = << >> THEN st
    ELSE forEachPostMessage(postMessage(st, Head(msgs)), Tail(msgs))

\* Mutant: the promise is never completed, its done-callbacks never run.
completePromise_Missing(st) == st

\* c(this.extensionHostProcessHandle): completing the promise runs its
\* done-callbacks in the order they were registered; completing it again does nothing.
completePromise(st) ==
    IF st.promise = "pending"
      THEN [st EXCEPT !.promise = "done",
                      !.sent = @ \o st.listeners,
                      !.listeners = << >>]
      ELSE st

\* Mutant: the backlog is flushed but not emptied.
onInitialized_KeepsBacklog(st) ==
    LET flushed == forEachPostMessage(st, st.unsent)
        ready   == [flushed EXCEPT !.ready = TRUE]
    IN  completePromise(ready)

\* onMessaage, branch 2 ('initialized'), and the c(...) of the caller on `true`
onInitialized(st) ==
    LET flushed == forEachPostMessage(st, st.unsent)
        ready   == [flushed EXCEPT !.unsent = << >>, !.ready = TRUE]
    IN  completePromise(ready)

\* public postMessage(msg), called with the next message
PostMessage ==
    /\ nPosted < MaxPost
    /\ nPosted' = nPosted + 1
    /\ nPreReady' = IF extensionHostProcessReady THEN nPreReady ELSE nPreReady + 1
    /\ SetMsgState(postMessage(MsgState, nPosted + 1))
    /\ UNCHANGED << ptyVars, backendVars, healthVars, serviceVars, modeVars,
                    terminateSinceStart,
                    extensionHostProcessHandle, initializeTimer,
                    lastExtensionHostError, terminating, initPayloadsSent,
                    terminateSentinels, callbackCount, logCount, reactionVars,
                    errorNotifications, startupWarnings, childLog, nExits, nErrors,
                    nTerminate >>

\* Mutant: the startup timer is armed in every environment.
StartExtensionHostProcess_AlwaysArms ==
    /\ initializeExtensionHostProcess = "none"
    /\ initializeExtensionHostProcess' = "pending"
    /\ initializeTimer' = "armed"
    /\ UNCHANGED << ptyVars, backendVars, healthVars, serviceVars, modeVars,
                    terminateSinceStart,
                    promiseListeners, extensionHostProcessHandle,
                    extensionHostProcessReady, lastExtensionHostError, unsentMessages,
                    terminating, sentToChild, initPayloadsSent, terminateSentinels,
                    callbackCount, logCount, reactionVars, errorNotifications,
                    startupWarnings, nPosted, nPreReady, childLog, nExits, nErrors,
                    nTerminate >>

\* startExtensionHostProcess: arms the startup timer when not built or in
\* extension development, and creates the promise (the fork comes later,
\* when the debug port is resolved).
StartExtensionHostProcess ==
    /\ initializeExtensionHostProcess = "none"
    /\ initializeExtensionHostProcess' = "pending"
    /\ initializeTimer' = IF ~environment.isBuilt \/ isExtensionDevelopmentHost
                            THEN "armed" ELSE initializeTimer
    /\ UNCHANGED << ptyVars, backendVars, healthVars, serviceVars, modeVars,
                    terminateSinceStart,
                    promiseListeners, extensionHostProcessHandle,
                    extensionHostProcessReady, lastExtensionHostError, unsentMessages,
                    terminating, sentToChild, initPayloadsSent, terminateSentinels,
                    callbackCount, logCount, reactionVars, errorNotifications,
                    startupWarnings, nPosted, nPreReady, childLog, nExits, nErrors,
                    nTerminate >>

\* The startup timer expires: a warning, nothing else.
StartupTimerFires ==
    /\ initializeTimer = "armed"
    /\ initializeTimer' = "fired"
    /\ startupWarnings' = startupWarnings + 1
    /\ UNCHANGED << ptyVars, backendVars, healthVars, serviceVars, modeVars,
                    terminateSinceStart,
                    initializeExtensionHostProcess, promiseListeners,
                    extensionHostProcessHandle, extensionHostProcessReady,
                    lastExtensionHostError, unsentMessages, terminating, sentToChild,
                    initPayloadsSent, terminateSentinels, callbackCount, logCount,
                    reactionVars, errorNotifications, nPosted, nPreReady, childLog,
                    nExits, nErrors, nTerminate >>

\* doInitializeExtensionHostProcess, the continuation of resolveDebugPort: fork
\* the child and attach the message, error and exit listeners.
Fork ==
    /\ initializeExtensionHostProcess # "none"
    /\ extensionHostProcessHandle = "none"
    /\ extensionHostProcessHandle' = "forked"
    /\ UNCHANGED << ptyVars, backendVars, healthVars, serviceVars, modeVars,
                    terminateSinceStart,
                    initializeExtensionHostProcess, promiseListeners,
                    extensionHostProcessReady, initializeTimer, lastExtensionHostError,
                    unsentMessages, terminating, sentToChild, initPayloadsSent,
                    terminateSentinels, callbackCount, logCount, reactionVars,
                    errorNotifications, startupWarnings, nPosted, nPreReady, childLog,
                    nExits, nErrors, nTerminate >>

\* Mutant: a message that arrives before the supervisor is ready is dropped.
PassToCallback_DropsBeforeReady ==
    /\ callbackCount' = IF extensionHostProcessReady THEN callbackCount + 1
                        ELSE callbackCount
    /\ UNCHANGED << initializeExtensionHostProcess, promiseListeners,
                    extensionHostProcessReady, unsentMessages, sentToChild,
                    initializeTimer, initPayloadsSent, logCount >>

\* onMessaage, the last branch: any other message goes to the callback
PassToCallback ==
    /\ callbackCount' = callbackCount + 1
    /\ UNCHANGED << initializeExtensionHostProcess, promiseListeners,
                    extensionHostProcessReady, unsentMessages, sentToChild,
                    initializeTimer, initPayloadsSent, logCount >>

\* Mutant: a logging entry is logged and handed to the callback as well.
LogExtensionHostMessage_AlsoToCallback ==
    /\ logCount' = logCount + 1
    /\ callbackCount' = callbackCount + 1
    /\ UNCHANGED << initializeExtensionHostProcess, promiseListeners,
                    extensionHostProcessReady, unsentMessages, sentToChild,
                    initializeTimer, initPayloadsSent >>

\* onMessaage, the logging branch: a message of type '__$console' goes to
\* logExtensionHostMessage and the handler returns
LogExtensionHostMessage ==
    /\ logCount' = logCount + 1
    /\ UNCHANGED << initializeExtensionHostProcess, promiseListeners,
                    extensionHostProcessReady, unsentMessages, sentToChild,
                    initializeTimer, initPayloadsSent, callbackCount >>

\* onMessaage(msg, onExtensionHostMessage) with the c(...) of its caller
OnMessaage(msg) ==
    /\ extensionHostProcessHandle = "forked"
    /\ Len(childLog) < MaxChildMsgs
    /\ childLog' = Append(childLog, msg)
    /\ CASE msg = "ready" ->
              \* initializeExtensionHost(): clear the timer, send the init payload
              /\ initializeTimer' = IF initializeTimer = "armed" THEN "cleared"
                                    ELSE initializeTimer
              /\ initPayloadsSent' = initPayloadsSent + 1
              /\ UNCHANGED << initializeExtensionHostProcess, promiseListeners,
                              extensionHostProcessReady, unsentMessages, sentToChild,
                              callbackCount, logCount >>
         [] msg = "initialized" ->
              /\ SetMsgState(onInitialized(MsgState))
              /\ UNCHANGED << initializeTimer, initPayloadsSent, callbackCount, logCount >>
         [] msg = "log" -> LogExtensionHostMessage
         [] OTHER -> PassToCallback
    /\ UNCHANGED << ptyVars, backendVars, healthVars, serviceVars, modeVars,
                    terminateSinceStart,
                    extensionHostProcessHandle, lastExtensionHostError,
                    terminating, terminateSentinels, reactionVars, errorNotifications,
                    startupWarnings, nPosted, nPreReady, nExits, nErrors, nTerminate >>

ChildSends == \E msg \in ChildMsgs : OnMessaage(msg)

\* Mutant: every error is shown, the comparison with the last one is missing.
OnError_ReportsEveryError(text) ==
    /\ extensionHostProcessHandle = "forked"
    /\ nErrors < MaxErrors
    /\ nErrors' = nErrors + 1
    /\ lastExtensionHostError' = text
    /\ errorNotifications' = errorNotifications + 1
    /\ UNCHANGED << ptyVars, backendVars, healthVars, serviceVars, modeVars,
                    terminateSinceStart,
                    initializeExtensionHostProcess, promiseListeners,
                    extensionHostProcessHandle, extensionHostProcessReady,
                    initializeTimer, unsentMessages, terminating, sentToChild,
                    initPayloadsSent, terminateSentinels, callbackCount, logCount,
                    reactionVars, startupWarnings, nPosted, nPreReady, childLog,
                    nExits, nTerminate >>

\* onError(err): an error different from the last reported one is shown
OnError(text) ==
    /\ extensionHostProcessHandle = "forked"
    /\ nErrors < MaxErrors
    /\ nErrors' = nErrors + 1
    /\ IF text = lastExtensionHostError
         THEN UNCHANGED << lastExtensionHostError, errorNotifications >>
         ELSE /\ lastExtensionHostError' = text
              /\ errorNotifications' = errorNotifications + 1
    /\ UNCHANGED << ptyVars, backendVars, healthVars, serviceVars, modeVars,
                    terminateSinceStart,
                    initializeExtensionHostProcess, promiseListeners,
                    extensionHostProcessHandle, extensionHostProcessReady,
                    initializeTimer, unsentMessages, terminating, sentToChild,
                    initPayloadsSent, terminateSentinels, callbackCount, logCount,
                    reactionVars, startupWarnings, nPosted, nPreReady, childLog,
                    nExits, nTerminate >>

ChildError == \E text \in ErrorTexts : OnError(text)

\* The reaction to an unexpected termination, by mode
UnexpectedTermination ==
    IF ~isExtensionDevelopmentHost
      THEN /\ crashNotifications' = crashNotifications + 1
           /\ UNCHANGED << windowCloses, exitCodeSignals >>
      ELSE IF ~isExtensionDevelopmentTestFromCli
        THEN /\ windowCloses' = windowCloses + 1
             /\ UNCHANGED << crashNotifications, exitCodeSignals >>
        ELSE /\ exitCodeSignals' = exitCodeSignals + 1
             /\ UNCHANGED << crashNotifications, windowCloses >>

\* Mutant: the exit is handled without looking at the terminating flag.
ExitReaction_IgnoresTerminating == UnexpectedTermination

\* onExit: the reaction, none when terminate() was called before
ExitReaction ==
    IF ~terminating THEN UnexpectedTermination ELSE UNCHANGED reactionVars

\* onExit(code, signal, onProcessExit)
OnExit ==
    /\ extensionHostProcessHandle = "forked"
    /\ nExits < MaxExits
    /\ nExits' = nExits + 1
    /\ ExitReaction
    /\ UNCHANGED << ptyVars, backendVars, healthVars, serviceVars, modeVars,
                    terminateSinceStart,
                    initializeExtensionHostProcess, promiseListeners,
                    extensionHostProcessHandle, extensionHostProcessReady,
                    initializeTimer, lastExtensionHostError, unsentMessages,
                    terminating, sentToChild, initPayloadsSent, terminateSentinels,
                    callbackCount, logCount, errorNotifications, startupWarnings,
                    nPosted, nPreReady, childLog, nErrors, nTerminate >>

\* terminate()
Terminate ==
    /\ nTerminate < MaxTerminate
    /\ nTerminate' = nTerminate + 1
    /\ terminating' = TRUE
    /\ terminateSentinels' = IF extensionHostProcessHandle # "none"
                               THEN terminateSentinels + 1 ELSE terminateSentinels
    /\ terminateSinceStart' = (terminateSinceStart \/ initializeExtensionHostProcess # "none")
    /\ UNCHANGED << ptyVars, backendVars, healthVars, serviceVars, modeVars,
                    initializeExtensionHostProcess, promiseListeners,
                    extensionHostProcessHandle, extensionHostProcessReady,
                    initializeTimer, lastExtensionHostError, unsentMessages,
                    sentToChild, initPayloadsSent, callbackCount, logCount,
                    reactionVars, errorNotifications, startupWarnings, nPosted,
                    nPreReady, childLog, nExits, nErrors >>

\* ------------------------------------------------------- terminal backend

\* The backend after construction: no pty registered, no call pending.
PtyInit ==
    /\ ptys = [i \in SessionIds |-> 0]
    /\ localPtys = << >>
    /\ pendingCreate = 0
    /\ pendingAttach = {}
    /\ exitWhileAttaching = {}
    /\ hostIds = {}
    /\ ptyHistory = << >>
    /\ lastAttach = [accepted |-> FALSE, returned |-> "none", threw |-> FALSE]
    /\ nPtyEvents = 0
    /\ lastPtyEvent = [kind |-> "none", id |-> 0]

\* createInstance(LocalPty, id, ...)
NewLocalPty(id) == [id |-> id, handled |-> 0, last |-> "none"]

\* Calls in flight and instances created: a new call needs room for its LocalPty.
RoomForCall ==
    Len(localPtys) + pendingCreate + Cardinality(pendingAttach) < MaxPtys

\* pty.handleData / handleDidChangeProperty / handleExit / handleReady /
\* handleReplay / handleOrphanQuestion on the instance at index h
handleEvent(instances, h, kind) ==
    [instances EXCEPT ![h].handled = @ + 1, ![h].last = kind]

\* createProcess up to its await of the pty host
CreateProcessCall ==
    /\ RoomForCall
    /\ pendingCreate' = pendingCreate + 1
    /\ UNCHANGED << supVars, backendVars, healthVars, serviceVars,
                    ptys, localPtys, pendingAttach, exitWhileAttaching, hostIds,
                    ptyHistory, lastAttach, nPtyEvents, lastPtyEvent >>

\* createProcess from the pty host's reply on: the host returns a new id, a
\* LocalPty is created for it and registered, and the pty is returned.
CreateProcessResume ==
    /\ pendingCreate > 0
    /\ \E id \in SessionIds \ hostIds :
          /\ hostIds' = hostIds \cup {id}
          /\ localPtys' = Append(localPtys, NewLocalPty(id))
          /\ ptys' = [ptys EXCEPT ![id] = Len(localPtys) + 1]
    /\ ptyHistory' = Append(ptyHistory, [by |-> "create", exitSince |-> FALSE,
                                          exitAwaited |-> FALSE])
    /\ pendingCreate' = pendingCreate - 1
    /\ UNCHANGED << supVars, backendVars, healthVars, serviceVars,
                    pendingAttach, exitWhileAttaching, lastAttach, nPtyEvents,
                    lastPtyEvent >>

\* attachToProcess(id) up to its await of the pty host
AttachToProcessCall(id) ==
    /\ RoomForCall
    /\ id \notin pendingAttach
    /\ pendingAttach' = pendingAttach \cup {id}
    /\ UNCHANGED << supVars, backendVars, healthVars, serviceVars,
                    ptys, localPtys, pendingCreate, exitWhileAttaching, hostIds,
                    ptyHistory, lastAttach, nPtyEvents, lastPtyEvent >>

\* Mutant: the pty is created and registered whatever the host replied.
AttachToProcessResume_RegistersOnReject(id, accepted) ==
    /\ id \in pendingAttach
    /\ pendingAttach' = pendingAttach \ {id}
    /\ exitWhileAttaching' = exitWhileAttaching \ {id}
    /\ hostIds' = hostIds \cup {id}
    /\ localPtys' = Append(localPtys, NewLocalPty(id))
    /\ ptys' = [ptys EXCEPT ![id] = Len(localPtys) + 1]
    /\ ptyHistory' = Append(ptyHistory, [by |-> "attach", exitSince |-> FALSE,
                                          exitAwaited |-> id \in exitWhileAttaching])
    /\ lastAttach' = [accepted |-> accepted,
                      returned |-> IF accepted THEN "pty" ELSE "undefined",
                      threw |-> FALSE]
    /\ UNCHANGED << supVars, backendVars, healthVars, serviceVars,
                    pendingCreate, nPtyEvents, lastPtyEvent >>

\* attachToProcess(id) from the pty host's reply on: when the host accepted, a
\* LocalPty is created and registered; when it rejected, the error is traced
\* and undefined is returned.
AttachToProcessResume(id, accepted) ==
    /\ id \in pendingAttach
    /\ pendingAttach' = pendingAttach \ {id}
    /\ exitWhileAttaching' = exitWhileAttaching \ {id}
    /\ IF accepted
         THEN /\ hostIds' = hostIds \cup {id}
              /\ localPtys' = Append(localPtys, NewLocalPty(id))
              /\ ptys' = [ptys EXCEPT ![id] = Len(localPtys) + 1]
              /\ ptyHistory' = Append(ptyHistory,
                                       [by |-> "attach", exitSince |-> FALSE,
                                        exitAwaited |-> id \in exitWhileAttaching])
              /\ lastAttach' = [accepted |-> TRUE, returned |-> "pty", threw |-> FALSE]
         ELSE /\ lastAttach' = [accepted |-> FALSE, returned |-> "undefined",
                                threw |-> FALSE]
              /\ UNCHANGED << hostIds, localPtys, ptys, ptyHistory >>
    /\ UNCHANGED << supVars, backendVars, healthVars, serviceVars,
                    pendingCreate, nPtyEvents, lastPtyEvent >>

\* Mutant: the event goes to the pty created last, whatever its id.
Dispatch_ToNewestPty(kind, id) ==
    IF localPtys # << >>
      THEN /\ localPtys' = handleEvent(localPtys, Len(localPtys), kind)
           /\ ptys' = IF kind = "exit" THEN [ptys EXCEPT ![id] = 0] ELSE ptys
      ELSE UNCHANGED << localPtys, ptys >>

\* Mutant: any event of a session removes its pty from the registry.
Dispatch_RemovesOnEveryEvent(kind, id) ==
    IF ptys[id] # 0
      THEN /\ localPtys' = handleEvent(localPtys, ptys[id], kind)
           /\ ptys' = [ptys EXCEPT ![id] = 0]
      ELSE UNCHANGED << localPtys, ptys >>

\* Mutant: the pty is notified of its exit and stays registered.
Dispatch_KeepsExitedPty(kind, id) ==
    IF ptys[id] # 0
      THEN /\ localPtys' = handleEvent(localPtys, ptys[id], kind)
           /\ ptys' = ptys
      ELSE UNCHANGED << localPtys, ptys >>

\* this._ptys.get(e.id)?.handle...(e.event), and for an exit the notification
\* of the pty followed by its removal
Dispatch(kind, id) ==
    IF ptys[id] # 0
      THEN /\ localPtys' = handleEvent(localPtys, ptys[id], kind)
           /\ ptys' = IF kind = "exit" THEN [ptys EXCEPT ![id] = 0] ELSE ptys
      ELSE UNCHANGED << localPtys, ptys >>

\* The listeners the constructor attaches to the pty host's per-session event
\* streams.
OnPtyEvent(kind, id) ==
    /\ nPtyEvents < MaxPtyEvents
    /\ nPtyEvents' = nPtyEvents + 1
    /\ lastPtyEvent' = [kind |-> kind, id |-> id]
    /\ Dispatch(kind, id)
    /\ ptyHistory' = [k \in DOMAIN ptyHistory |->
                        IF kind = "exit" /\ localPtys[k].id = id
                          THEN [ptyHistory[k] EXCEPT !.exitSince = TRUE]
                          ELSE ptyHistory[k]]
    /\ exitWhileAttaching' = IF kind = "exit" /\ id \in pendingAttach
                               THEN exitWhileAttaching \cup {id}
                               ELSE exitWhileAttaching
    /\ UNCHANGED << supVars, backendVars, healthVars, serviceVars,
                    pendingCreate, pendingAttach, hostIds, lastAttach >>

AttachCalls == \E id \in SessionIds : AttachToProcessCall(id)
AttachResumes == \E id \in SessionIds, accepted \in BOOLEAN : AttachToProcessResume(id, accepted)
PtyHostExits == \E id \in SessionIds : OnPtyEvent("exit", id)
PtyHostEvents == \E kind \in PtyEventKinds, id \in SessionIds : OnPtyEvent(kind, id)

\* ------------------------------------------------ terminal backend: storage

\* A value of the storage service under the buffer-state key: absent, or a
\* text that JSON.parse rejects or turns into a value that is an object or
\* not, with or without a 'version' and a 'state' member.
StoredValue(parses, isObject, hasVersion, version, hasState, stateIsArray, state) ==
    [present |-> TRUE, parses |-> parses, isObject |-> isObject,
     hasVersion |-> hasVersion, version |-> version,
     hasState |-> hasState, stateIsArray |-> stateIsArray, state |-> state]

\* storageService.get(...) of a key that is not stored: undefined
NoBlob ==
    [present |-> FALSE, parses |-> FALSE, isObject |-> FALSE,
     hasVersion |-> FALSE, version |-> 0,
     hasState |-> FALSE, stateIsArray |-> FALSE, state |-> << >>]

\* state.processLaunchOptions.env as the pty host serialized it
SnapshotEnv == [resolvedBy |-> 0, base |-> "snapshot", collection |-> FALSE]

\* The fields of IShellLaunchConfig that _resolveEnvironmentForRevive reads.
ShellLaunchConfigs ==
    [useShellEnvironment : BOOLEAN, strictEnv : BOOLEAN, hideFromUser : BOOLEAN]

\* The launch configurations of the sessions that are serialized here: an
\* ordinary terminal and one with a strict environment.
StoredLaunchConfigs ==
    {slc \in ShellLaunchConfigs : ~slc.useShellEnvironment /\ ~slc.hideFromUser}

\* One ISerializedTerminalState: the session, its launch configuration and
\* the environment in its processLaunchOptions.
SerializedEntry(id, slc) ==
    [id |-> id, shellLaunchConfig |-> slc, env |-> SnapshotEnv]

RECURSIVE EntriesOf(_, _)
\* The entries of the sessions ids, in ascending order of the id.
EntriesOf(ids, slcOf) ==
    IF ids = {} THEN << >>
    ELSE LET id == CHOOSE i \in ids : \A j \in ids : i <= j
         IN  << SerializedEntry(id, slcOf[id]) >> \o EntriesOf(ids \ {id}, slcOf)

\* What the pty host's serializeTerminalState(ids) resolves to:
\* JSON.stringify of {version: 1, state: [...]} with one entry per session.
HostSerializations(ids) ==
    {StoredValue(TRUE, TRUE, TRUE, 1, TRUE, TRUE, EntriesOf(ids, slcOf)) :
        slcOf \in [ids -> StoredLaunchConfigs]}

\* The state of a stored value that is not revived: one ordinary session.
UnrevivedState ==
    << SerializedEntry(1, [useShellEnvironment |-> FALSE, strictEnv |-> FALSE,
                           hideFromUser |-> FALSE]) >>

\* Values that fail before or in the format and version checks: not JSON;
\* JSON null; an object without 'version'; one without 'state'; one whose
\* 'state' is no array; one of version 2.
MalformedBufferStates ==
    { StoredValue(FALSE, FALSE, FALSE, 0, FALSE, FALSE, << >>),
      StoredValue(TRUE, FALSE, FALSE, 0, FALSE, FALSE, << >>),
      StoredValue(TRUE, TRUE, FALSE, 0, TRUE, TRUE, UnrevivedState),
      StoredValue(TRUE, TRUE, TRUE, 1, FALSE, FALSE, << >>),
      StoredValue(TRUE, TRUE, TRUE, 1, TRUE, FALSE, << >>),
      StoredValue(TRUE, TRUE, TRUE, 2, TRUE, TRUE, UnrevivedState) }

\* What the window finds under the buffer-state key when it opens: nothing,
\* what persistTerminalState of an earlier window stored when it had no
\* session, one session or all of them, or something else.
StoredBufferStates ==
    {NoBlob} \cup MalformedBufferStates
             \cup UNION {HostSerializations(ids) : ids \in {{}, {1}, SessionIds}}

\* ISetTerminalLayoutInfoArgs
LayoutArgs == [workspaceId |-> "workspace", tabs |-> 1]

\* What the window finds under the layout key: nothing, JSON.stringify(args)
\* of an earlier setTerminalLayoutInfo, or a text that is not JSON.
NoLayout == [present |-> FALSE, parses |-> FALSE, args |-> LayoutArgs]

StoredLayouts ==
    {NoLayout} \cup [present : {TRUE}, parses : BOOLEAN, args : {LayoutArgs}]

\* ---------------------------------------- terminal backend: detach replies

\* A request to the pty host: the operation and its argument.
HostCall(op, arg) == [op |-> op, arg |-> arg]

\* The backend's collaborators and its storage after construction: nothing
\* sent, nothing logged, no call made.  The storage holds what an earlier run
\* of the window left in it, see StoredBufferStates and StoredLayouts.
BackendIdle ==
    /\ hostCalls = << >>
    /\ warnings = 0
    /\ notifications = << >>
    /\ layoutCalls = << >>
    /\ pendingPersist = << >>
    /\ revivedSinceStore = FALSE
    /\ nPersist = 0
    /\ nDetach = 0
    /\ lastDetach = [requestId |-> 0, persistentProcessId |-> [given |-> FALSE, value |-> 0],
                     threw |-> FALSE]
    /\ isPtyHostUnresponsive = FALSE
    /\ unresponsiveNotification = 0
    /\ ptyHostFired = [unresponsive |-> 0, responsive |-> 0, restart |-> 0]
    /\ ptyHostLog = [info |-> 0, error |-> 0]
    /\ nHostSignals = 0
    /\ lastHostSignal = "none"
    /\ unresponsiveSince = FALSE
    /\ setLayoutCalls = << >>
    /\ nUpdates = 0
    /\ lastUpdate = [method |-> "none", id |-> 0]
    /\ autoRepliesConfig = [m \in {"m1", "m2"} |-> "none"]
    /\ hostAutoReplies = autoRepliesConfig
    /\ installHandlers = << >>
    /\ nConfigChanges = 0
    /\ resolveRequests = << >>
    /\ resolvedReplies = << >>

\* The optional parameter persistentProcessId?: number, left out (undefined)
\* or given with a value.
OptionalIds ==
    {[given |-> FALSE, value |-> 0]} \cup [given : {TRUE}, value : 0..MaxSessions]

\* !persistentProcessId
Falsy(persistentProcessId) ==
    ~persistentProcessId.given \/ persistentProcessId.value = 0

\* Mutant: the reply is forwarded to the pty host whatever the id.
AcceptDetachInstanceReply_ForwardsAlways(requestId, persistentProcessId) ==
    /\ nDetach < MaxDetach
    /\ nDetach' = nDetach + 1
    /\ lastDetach' = [requestId |-> requestId, persistentProcessId |-> persistentProcessId,
                      threw |-> FALSE]
    /\ hostCalls' = Append(hostCalls,
                           HostCall("acceptDetachInstanceReply",
                                    << requestId, persistentProcessId.value >>))
    /\ UNCHANGED << supVars, ptyVars, healthVars, serviceVars,
                    warnings, notifications, bufferState, layoutState,
                    layoutCalls, pendingPersist, revivedSinceStore, nPersist >>

\* acceptDetachInstanceReply(requestId, persistentProcessId?)
AcceptDetachInstanceReply(requestId, persistentProcessId) ==
    /\ nDetach < MaxDetach
    /\ nDetach' = nDetach + 1
    /\ lastDetach' = [requestId |-> requestId, persistentProcessId |-> persistentProcessId,
                      threw |-> FALSE]
    /\ IF Falsy(persistentProcessId)
         THEN /\ warnings' = warnings + 1
              /\ UNCHANGED hostCalls
         ELSE /\ hostCalls' = Append(hostCalls,
                                     HostCall("acceptDetachInstanceReply",
                                              << requestId, persistentProcessId.value >>))
              /\ UNCHANGED warnings
    /\ UNCHANGED << supVars, ptyVars, healthVars, serviceVars,
                    notifications, bufferState, layoutState,
                    layoutCalls, pendingPersist, revivedSinceStore, nPersist >>

DetachReplies ==
    \E requestId \in 1..MaxDetach, persistentProcessId \in OptionalIds :
       AcceptDetachInstanceReply(requestId, persistentProcessId)

\* ---------------------------------- terminal backend: persist and revive

\* Array.from(this._ptys.keys())
RegisteredIds == {i \in SessionIds : ptys[i] # 0}

\* persistTerminalState up to its await of the pty host
PersistTerminalStateCall ==
    /\ nPersist < MaxPersist
    /\ nPersist' = nPersist + 1
    /\ pendingPersist' = Append(pendingPersist, RegisteredIds)
    /\ hostCalls' = Append(hostCalls, HostCall("serializeTerminalState", RegisteredIds))
    /\ UNCHANGED << supVars, ptyVars, healthVars, serviceVars,
                    warnings, notifications, bufferState, layoutState,
                    layoutCalls, revivedSinceStore, nDetach, lastDetach >>

\* The k-th pending call without its entry.
WithoutCall(pending, k) ==
    [j \in 1..(Len(pending) - 1) |-> IF j < k THEN pending[j] ELSE pending[j + 1]]

\* Mutant: the reply is stored for the ids registered when it arrives.
PersistTerminalStateResume_SerializesLate(k, ok) ==
    /\ k \in DOMAIN pendingPersist
    /\ pendingPersist' = WithoutCall(pendingPersist, k)
    /\ IF ok
         THEN /\ \E serialized \in HostSerializations(RegisteredIds) :
                    bufferState' = serialized
              /\ revivedSinceStore' = FALSE
         ELSE UNCHANGED << bufferState, revivedSinceStore >>
    /\ UNCHANGED << supVars, ptyVars, healthVars, serviceVars,
                    hostCalls, warnings, notifications, layoutState,
                    layoutCalls, nPersist, nDetach, lastDetach >>

\* persistTerminalState from the pty host's reply on: the serialized state is
\* stored under the buffer-state key; a rejection goes to the caller.
PersistTerminalStateResume(k, ok) ==
    /\ k \in DOMAIN pendingPersist
    /\ pendingPersist' = WithoutCall(pendingPersist, k)
    /\ IF ok
         THEN /\ \E serialized \in HostSerializations(pendingPersist[k]) :
                    bufferState' = serialized
              /\ revivedSinceStore' = FALSE
         ELSE UNCHANGED << bufferState, revivedSinceStore >>
    /\ UNCHANGED << supVars, ptyVars, healthVars, serviceVars,
                    hostCalls, warnings, notifications, layoutState,
                    layoutCalls, nPersist, nDetach, lastDetach >>

PersistResumes ==
    \E k \in 1..MaxPersist, ok \in BOOLEAN : PersistTerminalStateResume(k, ok)

\* JSON.parse throws, or the 'in' operator throws on a value that is no object
ParseThrows(stored) == ~stored.parses \/ ~stored.isObject

\* !('version' in parsedUnknown) || !('state' in parsedUnknown) ||
\* !Array.isArray(parsedUnknown.state)
WrongFormat(stored) == ~stored.hasVersion \/ ~stored.hasState \/ ~stored.stateIsArray

\* Mutant: the collection is applied to a terminal hidden from the user.
resolveEnvironmentForRevive_IgnoresHideFromUser(call, shellLaunchConfig) ==
    [resolvedBy |-> call,
     base |-> IF shellLaunchConfig.useShellEnvironment THEN "shell" ELSE "process",
     collection |-> ~shellLaunchConfig.strictEnv]

\* _resolveEnvironmentForRevive: the base environment is the shell's or the
\* process's, and the merged environment variable collection is applied
\* unless the launch configuration is strict or hidden from the user.  call is
\* the getTerminalLayoutInfo call that resolves.
resolveEnvironmentForRevive(call, shellLaunchConfig) ==
    [resolvedBy |-> call,
     base |-> IF shellLaunchConfig.useShellEnvironment THEN "shell" ELSE "process",
     collection |-> ~shellLaunchConfig.strictEnv /\ ~shellLaunchConfig.hideFromUser]

\* A getTerminalLayoutInfo call as it starts: where it stands, its own parsed
\* state and how many of its entries have a fresh environment; the state it
\* passed to reviveTerminalProcesses and whether the pty host accepted it; how
\* often it sent the layout; what it returned, whether its catch was entered,
\* and whether it started after a successful revival with no state stored
\* since.  stored keeps the entries the call read from storage.
LayoutCall(pc, parsed, result, caught) ==
    [pc |-> pc, stored |-> parsed, parsed |-> parsed, resolved |-> 0,
     revive |-> [sent |-> FALSE, state |-> << >>, accepted |-> FALSE],
     layoutSent |-> 0,
     result |-> result, caught |-> caught, afterRevival |-> revivedSinceStore]

\* Mutant: the call returns undefined instead of asking the pty host.
QueryLayout_ReturnsUndefined(call, caught) ==
    [call EXCEPT !.pc = "returned", !.parsed = << >>, !.resolved = 0,
                 !.result = "undefined", !.caught = caught]

\* return this._localPtyService.getTerminalLayoutInfo(layoutArgs), which the
\* call reaches past the revival or, after an exception, past its catch
QueryLayout(call, caught) ==
    [call EXCEPT !.pc = "getTerminalLayoutInfo", !.parsed = << >>, !.resolved = 0,
                 !.caught = caught]

\* Mutant: the first entry of the state is not passed on.
SendRevive_DropsFirst(call, parsed) ==
    [call EXCEPT !.pc = "reviveTerminalProcesses", !.parsed = parsed,
                 !.resolved = Len(parsed),
                 !.revive = [sent |-> TRUE,
                             state |-> IF parsed = << >> THEN parsed ELSE Tail(parsed),
                             accepted |-> FALSE]]

\* await this._localPtyService.reviveTerminalProcesses(parsed, locale)
SendRevive(call, parsed) ==
    [call EXCEPT !.pc = "reviveTerminalProcesses", !.parsed = parsed,
                 !.resolved = Len(parsed),
                 !.revive = [sent |-> TRUE, state |-> parsed, accepted |-> FALSE]]

\* Mutant: a state of another version is revived like one of version 1.
WrongVersion_Never(stored) == FALSE

\* parsedCrossVersion.version !== 1
WrongVersion(stored) == stored.version # 1

\* getTerminalLayoutInfo up to its first await.  Without a stored state, or
\* when parsing it throws, the call goes on to query the pty host; a state of
\* the wrong format or version is logged and the call returns undefined; for
\* a version 1 state the call awaits the profile resolver's environment.
GetTerminalLayoutInfoCall ==
    /\ Len(layoutCalls) < MaxLayoutCalls
    /\ LET stored == bufferState
       IN  IF ~stored.present \/ ParseThrows(stored)
             THEN /\ layoutCalls' = Append(layoutCalls,
                                           LayoutCall("getTerminalLayoutInfo", << >>,
                                                      "pending", stored.present))
                  /\ UNCHANGED warnings
             ELSE IF WrongFormat(stored) \/ WrongVersion(stored)
               THEN /\ warnings' = warnings + 1
                    /\ layoutCalls' = Append(layoutCalls,
                                             LayoutCall("returned", << >>, "undefined",
                                                        FALSE))
               ELSE /\ layoutCalls' = Append(layoutCalls,
                                             LayoutCall("getEnvironment", stored.state,
                                                        "pending", FALSE))
                    /\ UNCHANGED warnings
    /\ UNCHANGED << supVars, ptyVars, healthVars, serviceVars,
                    hostCalls, notifications, bufferState, layoutState,
                    pendingPersist, revivedSinceStore, nPersist, nDetach, lastDetach >>

\* From the reply of terminalProfileResolverService.getEnvironment on: the
\* variable resolver is created and the first entry's environment is being
\* resolved, or with no entry the state is sent to the pty host; a rejection
\* is caught.
GetEnvironmentResume(c, ok) ==
    /\ c \in DOMAIN layoutCalls
    /\ layoutCalls[c].pc = "getEnvironment"
    /\ LET call == layoutCalls[c]
       IN  layoutCalls' = [layoutCalls EXCEPT ![c] =
              IF ~ok THEN QueryLayout(call, TRUE)
              ELSE IF call.parsed = << >> THEN SendRevive(call, call.parsed)
              ELSE [call EXCEPT !.pc = "resolveEnvironment"]]
    /\ UNCHANGED << supVars, ptyVars, healthVars, serviceVars,
                    hostCalls, warnings, notifications, bufferState,
                    layoutState, pendingPersist, revivedSinceStore, nPersist, nDetach,
                    lastDetach >>

\* Mutant: the entries are passed on with the environment they were stored with.
ResolveEnvironmentResume_KeepsSnapshot(c, ok) ==
    /\ c \in DOMAIN layoutCalls
    /\ layoutCalls[c].pc = "resolveEnvironment"
    /\ LET call == layoutCalls[c]
           k == call.resolved + 1
       IN  layoutCalls' = [layoutCalls EXCEPT ![c] =
              IF ~ok THEN QueryLayout(call, TRUE)
              ELSE IF k = Len(call.parsed) THEN SendRevive(call, call.parsed)
              ELSE [call EXCEPT !.resolved = k]]
    /\ UNCHANGED << supVars, ptyVars, healthVars, serviceVars,
                    hostCalls, warnings, notifications, bufferState,
                    layoutState, pendingPersist, revivedSinceStore, nPersist, nDetach,
                    lastDetach >>

\* From the completion of _resolveEnvironmentForRevive for the next entry on:
\* the entry's environment is replaced by the fresh one, and the loop awaits
\* the next entry's or, past the last entry, the state is sent to the pty
\* host; a failure is caught.
ResolveEnvironmentResume(c, ok) ==
    /\ c \in DOMAIN layoutCalls
    /\ layoutCalls[c].pc = "resolveEnvironment"
    /\ LET call == layoutCalls[c]
           k == call.resolved + 1
           freshEnv == resolveEnvironmentForRevive(c, call.parsed[k].shellLaunchConfig)
           parsed == [call.parsed EXCEPT ![k].env = freshEnv]
       IN  layoutCalls' = [layoutCalls EXCEPT ![c] =
              IF ~ok THEN QueryLayout(call, TRUE)
              ELSE IF k = Len(parsed) THEN SendRevive(call, parsed)
              ELSE [call EXCEPT !.parsed = parsed, !.resolved = k]]
    /\ UNCHANGED << supVars, ptyVars, healthVars, serviceVars,
                    hostCalls, warnings, notifications, bufferState,
                    layoutState, pendingPersist, revivedSinceStore, nPersist, nDetach,
                    lastDetach >>

\* await this._localPtyService.setTerminalLayoutInfo(JSON.parse(layoutInfo))
SendLayout(call) ==
    [call EXCEPT !.pc = "setTerminalLayoutInfo", !.parsed = << >>, !.resolved = 0,
                 !.layoutSent = @ + 1]

\* Past the revival the pty host has accepted: without a stored layout the call
\* goes on to query the host; a stored layout is parsed and sent to the host;
\* one that JSON.parse rejects is caught.
AfterRevive(call) ==
    LET revived == [call EXCEPT !.revive.accepted = TRUE]
    IN  IF ~layoutState.present THEN QueryLayout(revived, FALSE)
        ELSE IF ~layoutState.parses THEN QueryLayout(revived, TRUE)
        ELSE SendLayout(revived)

\* Mutant: the stored state survives its revival.
ReviveResume_KeepsState(c, ok) ==
    /\ c \in DOMAIN layoutCalls
    /\ layoutCalls[c].pc = "reviveTerminalProcesses"
    /\ IF ~ok
         THEN /\ layoutCalls' = [layoutCalls EXCEPT ![c] = QueryLayout(@, TRUE)]
              /\ UNCHANGED << bufferState, revivedSinceStore >>
         ELSE /\ UNCHANGED bufferState
              /\ revivedSinceStore' = TRUE
              /\ layoutCalls' = [layoutCalls EXCEPT ![c] = AfterRevive(@)]
    /\ UNCHANGED << supVars, ptyVars, healthVars, serviceVars,
                    hostCalls, warnings, notifications, layoutState,
                    pendingPersist, nPersist, nDetach, lastDetach >>

\* From the pty host's reply to reviveTerminalProcesses on: the stored state is
\* removed and the stored layout looked at; a rejection is caught.
ReviveResume(c, ok) ==
    /\ c \in DOMAIN layoutCalls
    /\ layoutCalls[c].pc = "reviveTerminalProcesses"
    /\ IF ~ok
         THEN /\ layoutCalls' = [layoutCalls EXCEPT ![c] = QueryLayout(@, TRUE)]
              /\ UNCHANGED << bufferState, revivedSinceStore >>
         ELSE /\ bufferState' = NoBlob
              /\ revivedSinceStore' = TRUE
              /\ layoutCalls' = [layoutCalls EXCEPT ![c] = AfterRevive(@)]
    /\ UNCHANGED << supVars, ptyVars, healthVars, serviceVars,
                    hostCalls, warnings, notifications, layoutState,
                    pendingPersist, nPersist, nDetach, lastDetach >>

\* Mutant: the stored layout survives its sending.
SetLayoutResume_KeepsLayout(c, ok) ==
    /\ c \in DOMAIN layoutCalls
    /\ layoutCalls[c].pc = "setTerminalLayoutInfo"
    /\ layoutCalls' = [layoutCalls EXCEPT ![c] = QueryLayout(@, ~ok)]
    /\ UNCHANGED layoutState
    /\ UNCHANGED << supVars, ptyVars, healthVars, serviceVars,
                    hostCalls, warnings, notifications, bufferState,
                    pendingPersist, revivedSinceStore, nPersist, nDetach, lastDetach >>

\* From the pty host's reply to the revival's setTerminalLayoutInfo on: the
\* stored layout is removed; a rejection is caught.  Either way the call goes
\* on to query the host.
SetLayoutResume(c, ok) ==
    /\ c \in DOMAIN layoutCalls
    /\ layoutCalls[c].pc = "setTerminalLayoutInfo"
    /\ layoutCalls' = [layoutCalls EXCEPT ![c] = QueryLayout(@, ~ok)]
    /\ layoutState' = IF ok THEN NoLayout ELSE layoutState
    /\ UNCHANGED << supVars, ptyVars, healthVars, serviceVars,
                    hostCalls, warnings, notifications, bufferState,
                    pendingPersist, revivedSinceStore, nPersist, nDetach, lastDetach >>

\* The pty host's reply to getTerminalLayoutInfo is what the call returns, its
\* rejection what the call throws.
GetLayoutResume(c, ok) ==
    /\ c \in DOMAIN layoutCalls
    /\ layoutCalls[c].pc = "getTerminalLayoutInfo"
    /\ layoutCalls' = [layoutCalls EXCEPT ![c].pc = "returned",
                                          ![c].result = IF ok THEN "hostLayoutInfo"
                                                              ELSE "hostRejection"]
    /\ UNCHANGED << supVars, ptyVars, healthVars, serviceVars,
                    hostCalls, warnings, notifications, bufferState,
                    layoutState, pendingPersist, revivedSinceStore, nPersist, nDetach,
                    lastDetach >>

GetEnvironmentResumes ==
    \E c \in 1..MaxLayoutCalls, ok \in BOOLEAN : GetEnvironmentResume(c, ok)
ResolveEnvironmentResumes ==
    \E c \in 1..MaxLayoutCalls, ok \in BOOLEAN : ResolveEnvironmentResume(c, ok)
\* The same while the resolution of the last entry of a state stalls: the
\* promise of its _resolveEnvironmentForRevive never settles.
ResolveEnvironmentResumesButLast ==
    \E c \in 1..MaxLayoutCalls, ok \in BOOLEAN :
        /\ c \in DOMAIN layoutCalls
        /\ layoutCalls[c].resolved + 1 < Len(layoutCalls[c].parsed)
        /\ ResolveEnvironmentResume(c, ok)
ReviveResumes ==
    \E c \in 1..MaxLayoutCalls, ok \in BOOLEAN : ReviveResume(c, ok)
SetLayoutResumes ==
    \E c \in 1..MaxLayoutCalls, ok \in BOOLEAN : SetLayoutResume(c, ok)
GetLayoutResumes ==
    \E c \in 1..MaxLayoutCalls, ok \in BOOLEAN : GetLayoutResume(c, ok)

\* --------------------------------------- terminal backend: layout changes

\* The optional parameter layoutInfo?: ITerminalsLayoutInfoById, left out
\* (undefined) or given with its tabs.  A list of tabs is named by a number,
\* 0 naming the empty list.
LayoutInfos ==
    {[given |-> FALSE, tabs |-> 0]} \cup [given : {TRUE}, tabs : {0, 1, 2}]

\* Mutant: the tabs of the layout that was stored last are sent again.
SetLayoutArgs_KeepsStoredTabs(layoutInfo) ==
    [workspaceId |-> LayoutArgs.workspaceId,
     tabs |-> IF layoutState.present THEN layoutState.args.tabs ELSE 0]

\* const args = { workspaceId: this._getWorkspaceId(),
\*                tabs: layoutInfo ? layoutInfo.tabs : [] }
SetLayoutArgs(layoutInfo) ==
    [workspaceId |-> LayoutArgs.workspaceId,
     tabs |-> IF layoutInfo.given THEN layoutInfo.tabs ELSE 0]

\* setTerminalLayoutInfo(layoutInfo) up to its await: the arguments are built
\* and sent to the pty host.
SetTerminalLayoutInfoCall(layoutInfo) ==
    /\ Len(setLayoutCalls) < MaxSetLayout
    /\ setLayoutCalls' = Append(setLayoutCalls,
                                [pc |-> "setTerminalLayoutInfo", layoutInfo |-> layoutInfo,
                                 sent |-> SetLayoutArgs(layoutInfo)])
    /\ UNCHANGED << supVars, ptyVars, backendVars, healthVars, nUpdates, lastUpdate,
                    configVars, resolveVars >>

\* Mutant: the call returns without writing to the storage.
SetTerminalLayoutInfoResume_StoresNothing(c, ok) ==
    /\ c \in DOMAIN setLayoutCalls
    /\ setLayoutCalls[c].pc = "setTerminalLayoutInfo"
    /\ setLayoutCalls' = [setLayoutCalls EXCEPT ![c].pc = IF ok THEN "returned" ELSE "threw"]
    /\ UNCHANGED << supVars, ptyVars, backendVars, healthVars, nUpdates, lastUpdate,
                    configVars, resolveVars >>

\* From the pty host's reply on: JSON.stringify(args) is stored under the
\* layout key and the call returns; the host's rejection is what the call throws.
SetTerminalLayoutInfoResume(c, ok) ==
    /\ c \in DOMAIN setLayoutCalls
    /\ setLayoutCalls[c].pc = "setTerminalLayoutInfo"
    /\ setLayoutCalls' = [setLayoutCalls EXCEPT ![c].pc = IF ok THEN "returned" ELSE "threw"]
    /\ layoutState' = IF ok THEN [present |-> TRUE, parses |-> TRUE,
                                  args |-> setLayoutCalls[c].sent]
                      ELSE layoutState
    /\ UNCHANGED << supVars, ptyVars, healthVars,
                    hostCalls, warnings, notifications, bufferState, layoutCalls,
                    pendingPersist, revivedSinceStore, nPersist, nDetach, lastDetach,
                    nUpdates, lastUpdate, configVars, resolveVars >>

SetTerminalLayoutInfoCalls ==
    \E layoutInfo \in LayoutInfos : SetTerminalLayoutInfoCall(layoutInfo)
SetTerminalLayoutInfoResumes ==
    \E c \in 1..MaxSetLayout, ok \in BOOLEAN : SetTerminalLayoutInfoResume(c, ok)

\* updateTitle, updateIcon and updateProperty
UpdateMethods == {"updateTitle", "updateIcon", "updateProperty"}

\* updateTitle(id, ...), updateIcon(id, ...), updateProperty(id, ...): the
\* request is passed to the pty host for whatever id the caller names, and the
\* host's reply or rejection is the call's.
Update(method, id) ==
    /\ nUpdates < MaxUpdates
    /\ nUpdates' = nUpdates + 1
    /\ lastUpdate' = [method |-> method, id |-> id]
    /\ UNCHANGED << supVars, ptyVars, backendVars, healthVars, setLayoutCalls,
                    configVars, resolveVars >>

Updates == \E method \in UpdateMethods, id \in SessionIds : Update(method, id)

\* ------------------------------------------ terminal backend: auto replies

\* The keys a terminal.integrated.autoReplies object can have, in the order
\* Object.keys lists them, and the replies it can map them to.
AutoReplyMatches == << "m1", "m2" >>

AutoReplyTexts == {"r1", "r2"}

\* config.autoReplies: the reply of each key, "none" for a key it does not have
AutoReplyConfigs ==
    [{AutoReplyMatches[k] : k \in DOMAIN AutoReplyMatches} -> AutoReplyTexts \cup {"none"}]

\* The pty host after uninstallAllAutoReplies()
NoAutoReplies == [m \in {AutoReplyMatches[k] : k \in DOMAIN AutoReplyMatches} |-> "none"]

\* The position in Object.keys(config.autoReplies) that follows position
\* after, 0 past the last key.
NextKey(autoReplies, after) ==
    LET later == {k \in DOMAIN AutoReplyMatches :
                     k > after /\ autoReplies[AutoReplyMatches[k]] # "none"}
    IN  IF later = {} THEN 0 ELSE CHOOSE k \in later : \A j \in later : k <= j

\* this._localPtyService.installAutoReply(match, reply).  The requests of the
\* backend reach the pty host in the order they were made, and the host
\* acknowledges each.
installAutoReply(installed, match, reply) == [installed EXCEPT ![match] = reply]

\* One turn of the loop over Object.keys(config.autoReplies): the key after
\* the handler's position is installed and the handler awaits the host, or
\* past the last key the handler returns.
InstallFrom(installed, handler) ==
    LET k == NextKey(handler.config, handler.key)
    IN  [installed |-> IF k = 0 THEN installed
                       ELSE installAutoReply(installed, AutoReplyMatches[k],
                                             handler.config[AutoReplyMatches[k]]),
         handler   |-> [handler EXCEPT !.key = k,
                                       !.pc = IF k = 0 THEN "returned"
                                              ELSE "installAutoReply"]]

\* The listener on configurationService.onDidChangeConfiguration up to its
\* first await.  A change that does not affect the auto replies is ignored;
\* otherwise all auto replies are uninstalled, the configuration is read and
\* the installation of its first key is awaited.
OnDidChangeConfiguration(affectsAutoReplies, autoReplies) ==
    /\ nConfigChanges < MaxConfigChanges
    /\ nConfigChanges' = nConfigChanges + 1
    /\ IF ~affectsAutoReplies
         THEN UNCHANGED << autoRepliesConfig, hostAutoReplies, installHandlers >>
         ELSE LET turn == InstallFrom(NoAutoReplies,
                                      [config |-> autoReplies, key |-> 0,
                                       pc |-> "installAutoReply"])
              IN  /\ autoRepliesConfig' = autoReplies
                  /\ hostAutoReplies' = turn.installed
                  /\ installHandlers' = Append(installHandlers, turn.handler)
    /\ UNCHANGED << supVars, ptyVars, backendVars, healthVars,
                    setLayoutCalls, nUpdates, lastUpdate, resolveVars >>

\* The listener from the host's acknowledgement of an installAutoReply on:
\* the next key of the configuration the handler has read is installed.
InstallAutoReplyResume(h) ==
    /\ h \in DOMAIN installHandlers
    /\ installHandlers[h].pc = "installAutoReply"
    /\ LET turn == InstallFrom(hostAutoReplies, installHandlers[h])
       IN  /\ hostAutoReplies' = turn.installed
           /\ installHandlers' = [installHandlers EXCEPT ![h] = turn.handler]
    /\ UNCHANGED << supVars, ptyVars, backendVars, healthVars,
                    setLayoutCalls, nUpdates, lastUpdate, resolveVars,
                    autoRepliesConfig, nConfigChanges >>

ConfigurationChanges ==
    \E affectsAutoReplies \in BOOLEAN, autoReplies \in AutoReplyConfigs :
        /\ ~affectsAutoReplies => autoReplies = autoRepliesConfig
        /\ OnDidChangeConfiguration(affectsAutoReplies, autoReplies)

InstallAutoReplyResumes == \E h \in DOMAIN installHandlers : InstallAutoReplyResume(h)

\* ----------------------------------- terminal backend: resolving variables

\* this._workspaceContextService.getWorkspace().id
CurrentWorkspaceId == LayoutArgs.workspaceId

\* The workspace ids, the request ids and the lists of texts a request of the
\* pty host can carry.
RequestWorkspaceIds == {CurrentWorkspaceId, "otherWorkspace"}

RequestIds == {"q1", "q2"}

OriginalTexts == {<< >>, << "t1" >>, << "t1", "t2" >>, << "t2", "t1" >>}

\* _configurationResolverService.resolveAsync(lastActiveWorkspaceRoot, t)
resolveAsync(t) == [resolved |-> t]

\* Mutant: the resolved values are passed on in the reverse order.
ResolveAll_Reversed(originalText) ==
    [i \in DOMAIN originalText |->
        resolveAsync(originalText[Len(originalText) + 1 - i])]

\* Promise.all(e.originalText.map(t => resolveAsync(..., t))): the resolved
\* values in the order of the texts
ResolveAll(originalText) ==
    [i \in DOMAIN originalText |-> resolveAsync(originalText[i])]

\* Mutant: requests of every workspace are answered.
OtherWorkspace_Never(e) == FALSE

\* e.workspaceId !== this._workspaceContextService.getWorkspace().id
OtherWorkspace(e) == e.workspaceId # CurrentWorkspaceId

\* The listener on onPtyHostRequestResolveVariables up to its await: a request
\* of another workspace is left unanswered, the texts of one of this workspace
\* are being resolved.
OnPtyHostRequestResolveVariables(e) ==
    /\ Len(resolveRequests) < MaxResolve
    /\ resolveRequests' = Append(resolveRequests,
                                 [e |-> e,
                                  pc |-> IF OtherWorkspace(e) THEN "returned"
                                         ELSE "resolveAsync"])
    /\ UNCHANGED << supVars, ptyVars, backendVars, healthVars,
                    setLayoutCalls, nUpdates, lastUpdate, configVars,
                    resolvedReplies >>

\* The listener from the outcome of Promise.all on: the resolved values are
\* passed to acceptPtyHostResolvedVariables with the request's id; when a
\* resolution was rejected the listener throws and nothing is passed.
ResolveVariablesResume(r, ok) ==
    /\ r \in DOMAIN resolveRequests
    /\ resolveRequests[r].pc = "resolveAsync"
    /\ ~ok => resolveRequests[r].e.originalText # << >>
    /\ IF ok
         THEN /\ resolvedReplies' =
                    Append(resolvedReplies,
                           [request   |-> r,
                            requestId |-> resolveRequests[r].e.requestId,
                            result    |-> ResolveAll(resolveRequests[r].e.originalText)])
              /\ resolveRequests' = [resolveRequests EXCEPT ![r].pc = "returned"]
         ELSE /\ resolveRequests' = [resolveRequests EXCEPT ![r].pc = "threw"]
              /\ UNCHANGED resolvedReplies
    /\ UNCHANGED << supVars, ptyVars, backendVars, healthVars,
                    setLayoutCalls, nUpdates, lastUpdate, configVars >>

ResolveRequests ==
    \E e \in [workspaceId : RequestWorkspaceIds, requestId : RequestIds,
              originalText : OriginalTexts] :
        OnPtyHostRequestResolveVariables(e)

ResolveVariablesResumes ==
    \E r \in DOMAIN resolveRequests, ok \in BOOLEAN : ResolveVariablesResume(r, ok)

\* ------------------------------------------ terminal backend: host health

\* notificationService.prompt(Severity.Error, ..., choices): the handle of an
\* open notification with the one choice to restart the pty host.
UnresponsivePrompt ==
    [severity |-> "Error", choices |-> << "Restart pty host" >>, open |-> TRUE]

\* unresponsiveNotification?.close(): the notification of the handle the
\* variable holds is closed; without a handle nothing is.
CloseHeld ==
    IF unresponsiveNotification = 0
      THEN notifications
      ELSE [notifications EXCEPT ![unresponsiveNotification].open = FALSE]

\* The listener on onPtyHostExit logs an error.
OnPtyHostExit ==
    /\ nHostSignals < MaxHostSignals
    /\ nHostSignals' = nHostSignals + 1
    /\ lastHostSignal' = "exit"
    /\ unresponsiveSince' = unresponsiveSince
    /\ ptyHostLog' = [ptyHostLog EXCEPT !.error = @ + 1]
    /\ UNCHANGED << supVars, ptyVars, backendVars, serviceVars,
                    isPtyHostUnresponsive, unresponsiveNotification, ptyHostFired >>

\* Mutant: a restart leaves the flag as it is.
OnPtyHostStart_KeepsFlag ==
    /\ nHostSignals < MaxHostSignals
    /\ nHostSignals' = nHostSignals + 1
    /\ lastHostSignal' = "start"
    /\ unresponsiveSince' = FALSE
    /\ ptyHostLog' = [ptyHostLog EXCEPT !.info = @ + 1]
    /\ ptyHostFired' = [ptyHostFired EXCEPT !.restart = @ + 1]
    /\ notifications' = CloseHeld
    /\ unresponsiveNotification' = 0
    /\ isPtyHostUnresponsive' = isPtyHostUnresponsive
    /\ UNCHANGED << supVars, ptyVars, serviceVars,
                    hostCalls, warnings, bufferState, layoutState,
                    layoutCalls, pendingPersist, revivedSinceStore, nPersist, nDetach,
                    lastDetach >>

\* The listener on onPtyHostStart: the restart is logged and announced, the
\* held notification is closed and the host counts as responsive.
OnPtyHostStart ==
    /\ nHostSignals < MaxHostSignals
    /\ nHostSignals' = nHostSignals + 1
    /\ lastHostSignal' = "start"
    /\ unresponsiveSince' = FALSE
    /\ ptyHostLog' = [ptyHostLog EXCEPT !.info = @ + 1]
    /\ ptyHostFired' = [ptyHostFired EXCEPT !.restart = @ + 1]
    /\ notifications' = CloseHeld
    /\ unresponsiveNotification' = 0
    /\ isPtyHostUnresponsive' = FALSE
    /\ UNCHANGED << supVars, ptyVars, serviceVars,
                    hostCalls, warnings, bufferState, layoutState,
                    layoutCalls, pendingPersist, revivedSinceStore, nPersist, nDetach,
                    lastDetach >>

\* The listener on onPtyHostUnresponsive: a notification is prompted and its
\* handle assigned to the variable, whatever the variable held.
OnPtyHostUnresponsive ==
    /\ nHostSignals < MaxHostSignals
    /\ nHostSignals' = nHostSignals + 1
    /\ lastHostSignal' = "unresponsive"
    /\ unresponsiveSince' = TRUE
    /\ notifications' = Append(notifications, UnresponsivePrompt)
    /\ unresponsiveNotification' = Len(notifications) + 1
    /\ isPtyHostUnresponsive' = TRUE
    /\ ptyHostFired' = [ptyHostFired EXCEPT !.unresponsive = @ + 1]
    /\ UNCHANGED << supVars, ptyVars, serviceVars,
                    hostCalls, warnings, bufferState, layoutState,
                    layoutCalls, pendingPersist, revivedSinceStore, nPersist, nDetach,
                    lastDetach, ptyHostLog >>

\* Mutant: the listener does not look at the flag.
OnPtyHostResponsive_IgnoresFlag ==
    /\ nHostSignals < MaxHostSignals
    /\ nHostSignals' = nHostSignals + 1
    /\ lastHostSignal' = "responsive"
    /\ unresponsiveSince' = FALSE
    /\ ptyHostLog' = [ptyHostLog EXCEPT !.info = @ + 1]
    /\ notifications' = CloseHeld
    /\ unresponsiveNotification' = 0
    /\ isPtyHostUnresponsive' = FALSE
    /\ ptyHostFired' = [ptyHostFired EXCEPT !.responsive = @ + 1]
    /\ UNCHANGED << supVars, ptyVars, serviceVars,
                    hostCalls, warnings, bufferState, layoutState,
                    layoutCalls, pendingPersist, revivedSinceStore, nPersist, nDetach,
                    lastDetach >>

\* The listener on onPtyHostResponsive returns at once unless the host counts
\* as unresponsive; otherwise it logs, closes the held notification, resets
\* the flag and announces the recovery.
OnPtyHostResponsive ==
    /\ nHostSignals < MaxHostSignals
    /\ nHostSignals' = nHostSignals + 1
    /\ lastHostSignal' = "responsive"
    /\ unresponsiveSince' = FALSE
    /\ IF ~isPtyHostUnresponsive
         THEN UNCHANGED << notifications, unresponsiveNotification,
                           isPtyHostUnresponsive, ptyHostFired, ptyHostLog >>
         ELSE /\ ptyHostLog' = [ptyHostLog EXCEPT !.info = @ + 1]
              /\ notifications' = CloseHeld
              /\ unresponsiveNotification' = 0
              /\ isPtyHostUnresponsive' = FALSE
              /\ ptyHostFired' = [ptyHostFired EXCEPT !.responsive = @ + 1]
    /\ UNCHANGED << supVars, ptyVars, serviceVars,
                    hostCalls, warnings, bufferState, layoutState,
                    layoutCalls, pendingPersist, revivedSinceStore, nPersist, nDetach,
                    lastDetach >>

\* ------------------------------------------------------- specifications

\* The supervisor's message path: callers posting, the start, the fork, the
\* startup timer and the child's messages.
HandshakeNext ==
    \/ PostMessage
    \/ StartExtensionHostProcess
    \/ StartupTimerFires
    \/ Fork
    \/ ChildSends

\* The supervisor's process lifecycle: the start, the fork, the child's error
\* and exit events, terminate().
LifecycleNext ==
    \/ StartExtensionHostProcess
    \/ Fork
    \/ ChildError
    \/ OnExit
    \/ Terminate

\* The whole supervisor.
SupNext ==
    \/ HandshakeNext
    \/ LifecycleNext

PtyNext ==
    \/ CreateProcessCall
    \/ CreateProcessResume
    \/ AttachCalls
    \/ AttachResumes
    \/ PtyHostEvents

\* A built, non-development supervisor that is left alone.
SupIdle ==
    /\ SupInit
    /\ environment = [extensionDevelopmentPath |-> FALSE, extensionTestsPath |-> FALSE,
                      debugBreak |-> FALSE, isBuilt |-> TRUE]

\* The workspace storage holds neither a buffer state nor a layout.
StorageEmpty ==
    /\ bufferState = NoBlob
    /\ layoutState = NoLayout

\* The workspace storage as an earlier window with one session left it,
\* with or without a layout.
StorageOfOneSession ==
    /\ bufferState \in HostSerializations({1})
    /\ layoutState \in {stored \in StoredLayouts : stored.present => stored.parses}

\* The workspace storage as an earlier window left it with one session of any
\* launch configuration.
StorageOfAnySession ==
    /\ bufferState \in {StoredValue(TRUE, TRUE, TRUE, 1, TRUE, TRUE,
                                    << SerializedEntry(1, slc) >>) :
                           slc \in ShellLaunchConfigs}
    /\ layoutState \in StoredLayouts

\* The workspace storage as an earlier window left it.
StorageLeft ==
    /\ bufferState \in StoredBufferStates
    /\ layoutState \in StoredLayouts

DetachNext ==
    \/ DetachReplies

\* Sessions are created and exit while their state is persisted.
PersistNext ==
    \/ CreateProcessCall
    \/ CreateProcessResume
    \/ PtyHostExits
    \/ PersistTerminalStateCall
    \/ PersistResumes

\* getTerminalLayoutInfo, step by step
ReviveNext ==
    \/ GetTerminalLayoutInfoCall
    \/ GetEnvironmentResumes
    \/ ResolveEnvironmentResumes
    \/ ReviveResumes
    \/ SetLayoutResumes
    \/ GetLayoutResumes

\* getTerminalLayoutInfo while the resolution of the last entry stalls
StallNext ==
    \/ GetTerminalLayoutInfoCall
    \/ GetEnvironmentResumes
    \/ ResolveEnvironmentResumesButLast
    \/ ReviveResumes
    \/ SetLayoutResumes
    \/ GetLayoutResumes

\* The state is persisted and revived in the same window.
OneShotNext ==
    \/ PersistTerminalStateCall
    \/ PersistResumes
    \/ ReviveNext

\* The layout changes, the calls overlapping.
LayoutNext ==
    \/ SetTerminalLayoutInfoCalls
    \/ SetTerminalLayoutInfoResumes

\* The auto replies setting changes, the handlers overlapping.
AutoReplyNext ==
    \/ ConfigurationChanges
    \/ InstallAutoReplyResumes

\* The pty host asks for variables to be resolved, the requests overlapping.
ResolveNext ==
    \/ ResolveRequests
    \/ ResolveVariablesResumes

\* The pty host's health signals, in any number and order.
HealthNext ==
    \/ OnPtyHostExit
    \/ OnPtyHostStart
    \/ OnPtyHostUnresponsive
    \/ OnPtyHostResponsive

\* The calls made and the events and signals received so far.
CallsSoFar ==
    Len(localPtys) + pendingCreate + Cardinality(pendingAttach) + nPtyEvents
      + nPersist + Len(layoutCalls) + Len(setLayoutCalls) + nUpdates + nHostSignals

\* A further call, event or signal is within what the backend is given as a
\* whole.
RoomForCalls == CallsSoFar < MaxCalls

\* The backend as a whole, but for the detach requests: sessions are created,
\* attached to and exit while the state is persisted and revived, the layout
\* changes, sessions are updated and the pty host signals its health.
BackendNext ==
    \/ RoomForCalls /\ CreateProcessCall
    \/ RoomForCalls /\ AttachCalls
    \/ RoomForCalls /\ PtyHostEvents
    \/ RoomForCalls /\ PersistTerminalStateCall
    \/ RoomForCalls /\ GetTerminalLayoutInfoCall
    \/ RoomForCalls /\ SetTerminalLayoutInfoCalls
    \/ RoomForCalls /\ Updates
    \/ RoomForCalls /\ HealthNext
    \/ CreateProcessResume
    \/ AttachResumes
    \/ PersistResumes
    \/ GetEnvironmentResumes
    \/ ResolveEnvironmentResumes
    \/ ReviveResumes
    \/ SetLayoutResumes
    \/ GetLayoutResumes
    \/ SetTerminalLayoutInfoResumes

\* Both objects after construction, the supervisor in any environment.
Init == SupInit /\ PtyInit /\ BackendIdle /\ StorageEmpty

\* Both objects after construction, the supervisor in the one environment.
InitPty == SupIdle /\ PtyInit /\ BackendIdle /\ StorageEmpty

\* The same in a window whose storage an earlier window has written.
InitRevive == SupIdle /\ PtyInit /\ BackendIdle /\ StorageLeft

\* The same in a window whose storage holds the state of one session.
InitOneShot == SupIdle /\ PtyInit /\ BackendIdle /\ StorageOfOneSession

SpecHandshake == Init /\ [][HandshakeNext]_vars
SpecLifecycle == Init /\ [][LifecycleNext]_vars
SpecSup == Init /\ [][SupNext]_vars
SpecPty == InitPty /\ [][PtyNext]_vars
SpecDetach == InitPty /\ [][DetachNext]_vars
SpecPersist == InitPty /\ [][PersistNext]_vars
\* The same in a window whose storage holds one session of any configuration.
InitReviveAny == SupIdle /\ PtyInit /\ BackendIdle /\ StorageOfAnySession

SpecRevive == InitRevive /\ [][ReviveNext]_vars
SpecReviveAny == InitReviveAny /\ [][ReviveNext]_vars
SpecOneShot == InitOneShot /\ [][OneShotNext]_vars
SpecLayout == InitPty /\ [][LayoutNext]_vars
SpecHealth == InitPty /\ [][HealthNext]_vars
SpecAutoReplies == InitPty /\ [][AutoReplyNext]_vars
SpecResolve == InitPty /\ [][ResolveNext]_vars
SpecBackend == InitOneShot /\ [][BackendNext]_vars
\* Every reply but that of the stalled resolution arrives in the end.
SpecStall == InitRevive /\ [][StallNext]_vars /\ WF_vars(StallNext)

\* ----------------------------------------------------------------- claims

\* How often message m occurs in a sequence of messages.
Occurrences(seq, m) == Cardinality({k \in DOMAIN seq : seq[k] = m})

\* Messages 1..nPreReady are those submitted before readiness; the later
\* ones were submitted after it.
PreReadyMsgs == 1..nPreReady

InitializedReceived == \E k \in DOMAIN childLog : childLog[k] = "initialized"

\* The step is the receipt of message msg from the child.
ChildMsgStep(msg) ==
    /\ Len(childLog') = Len(childLog) + 1
    /\ childLog'[Len(childLog')] = msg

\* C1: the messages submitted through postMessage before readiness (before the
\* start as well as between the start and 'initialized') reach the child in
\* the order in which they were submitted.
C1_PreReadyMessagesInOrder ==
    \A i, j \in DOMAIN sentToChild :
        (i < j /\ sentToChild[i] \in PreReadyMsgs /\ sentToChild[j] \in PreReadyMsgs)
            => sentToChild[i] < sentToChild[j]

\* C2: as long as 'initialized' has not been received no application message
\* has been sent to the child, and every submitted message sits exactly once
\* in the backlog (the unsent messages or the callbacks waiting on the promise).
C2_NothingSentBeforeInitialized ==
    ~InitializedReceived =>
        /\ sentToChild = << >>
        /\ \A m \in 1..nPosted :
              Occurrences(unsentMessages, m) + Occurrences(promiseListeners, m) = 1

C2_Witness ==
    /\ ~InitializedReceived
    /\ \E k \in DOMAIN childLog : childLog[k] = "ready"
    /\ unsentMessages # << >>
    /\ promiseListeners # << >>

\* C3: once the supervisor is ready every message submitted before readiness
\* has been sent to the child exactly once, and nothing stays in the backlog;
\* no message is ever sent twice, however often 'initialized' is received.
C3_PreReadyMessagesSentExactlyOnce ==
    /\ extensionHostProcessReady =>
          /\ \A m \in PreReadyMsgs : Occurrences(sentToChild, m) = 1
          /\ unsentMessages = << >>
          /\ promiseListeners = << >>
    /\ \A m \in 1..nPosted : Occurrences(sentToChild, m) <= 1

C3_Witness ==
    /\ extensionHostProcessReady
    /\ nPreReady >= 2
    /\ Occurrences(childLog, "initialized") >= 2
    /\ \A m \in PreReadyMsgs : Occurrences(sentToChild, m) = 1

\* C4: a message submitted after the supervisor became ready is sent to the
\* child only after every message submitted before readiness.
C4_BacklogBeforeNewer ==
    \A i \in DOMAIN sentToChild :
        sentToChild[i] \notin PreReadyMsgs =>
            \A m \in PreReadyMsgs : \E j \in 1..(i - 1) : sentToChild[j] = m

C4_Witness ==
    /\ nPreReady >= 2
    /\ nPosted > nPreReady
    /\ Len(sentToChild) = nPosted

\* C5: an exit of the child after terminate() was called produces no crash
\* notification, no window close and no exit-code signal, in any mode.
C5_ExitAfterTerminateIsExpected ==
    [][(terminating /\ nExits' = nExits + 1) => UNCHANGED reactionVars]_vars

C5_Witness ==
    /\ terminating
    /\ nExits >= 1
    /\ crashNotifications = 0
    /\ windowCloses = 0
    /\ exitCodeSignals = 0

\* C6: an exit of the child with no terminate() before it causes exactly one
\* reaction, chosen by the environment: outside extension development the
\* crash notification; in extension development that is not a test run from
\* the CLI the close of the window; in a test run from the CLI (tests path
\* set, no debug break) the exit-code signal.
C6_OneReactionByMode ==
    [][(~terminating /\ nExits' = nExits + 1) =>
          LET dev == environment.extensionDevelopmentPath
              cli == dev /\ environment.extensionTestsPath /\ ~environment.debugBreak
          IN  /\ crashNotifications' = crashNotifications + (IF ~dev THEN 1 ELSE 0)
              /\ windowCloses' = windowCloses + (IF dev /\ ~cli THEN 1 ELSE 0)
              /\ exitCodeSignals' = exitCodeSignals + (IF cli THEN 1 ELSE 0)
              /\ errorNotifications' = errorNotifications
      ]_vars

C6_Witness ==
    /\ environment.extensionDevelopmentPath
    /\ environment.extensionTestsPath
    /\ environment.debugBreak
    /\ nTerminate = 0
    /\ nExits = 1
    /\ windowCloses = 1
    /\ crashNotifications = 0
    /\ exitCodeSignals = 0

\* C7: when an unexpected exit (no terminate() before it) is signalled twice,
\* with the same text, the crash notification is shown only once.
C7_CrashNotificationShownOnce ==
    nTerminate = 0 => crashNotifications <= 1

C9_HandshakeOrder ==
    [][/\ initPayloadsSent' # initPayloadsSent => ChildMsgStep("ready")
       /\ (~extensionHostProcessReady /\ extensionHostProcessReady') =>
             /\ ChildMsgStep("initialized")
             /\ \E k \in DOMAIN childLog : childLog[k] = "ready"
             /\ initPayloadsSent >= 1
      ]_vars

\* C10: an event of the pty host with session id i is handled by the LocalPty
\* registered for i and by no other; when none is registered for i the event
\* changes neither a LocalPty nor the registry.
C10_EventGoesToItsPty ==
    [][nPtyEvents' = nPtyEvents + 1 =>
          LET e == lastPtyEvent'
              h == ptys[e.id]
          IN  /\ Len(localPtys') = Len(localPtys)
              /\ \A k \in DOMAIN localPtys :
                    localPtys'[k] = IF k = h
                                      THEN [id |-> e.id,
                                            handled |-> localPtys[k].handled + 1,
                                            last |-> e.kind]
                                      ELSE localPtys[k]
              /\ h = 0 => ptys' = ptys
              /\ \A i \in SessionIds : i # e.id => ptys'[i] = ptys[i]
      ]_vars

C10_Witness ==
    /\ \E i, j \in SessionIds :
          /\ i # j
          /\ ptys[i] # 0
          /\ ptys[j] # 0
          /\ localPtys[ptys[i]].handled = 1
          /\ localPtys[ptys[j]].handled = 0
    /\ nPtyEvents = 2

\* C11: an exit event for a registered id is handled by the LocalPty registered
\* for it, which is removed from the registry in the same step; a LocalPty
\* that has handled its exit handles no event afterwards, whatever follows.
C11_ExitNotifiesThenRemoves ==
    [][/\ (nPtyEvents' = nPtyEvents + 1 /\ lastPtyEvent'.kind = "exit"
              /\ ptys[lastPtyEvent'.id] # 0) =>
             LET i == lastPtyEvent'.id
                 h == ptys[i]
             IN  /\ localPtys'[h].last = "exit"
                 /\ localPtys'[h].handled = localPtys[h].handled + 1
                 /\ ptys'[i] = 0
       /\ \A h \in DOMAIN localPtys :
             localPtys[h].last = "exit" => localPtys'[h] = localPtys[h]
      ]_vars

\* A pty handled its exit as its only event, and an event of another kind for
\* the same id was received after that.
C11_Witness ==
    \E h \in DOMAIN localPtys :
       /\ localPtys[h].last = "exit"
       /\ localPtys[h].handled = 1
       /\ ptys[localPtys[h].id] = 0
       /\ nPtyEvents = 2
       /\ lastPtyEvent.id = localPtys[h].id
       /\ lastPtyEvent.kind = "data"

\* C12: a LocalPty returned by createProcess, with no exit event for its id
\* received since, is the one the registry maps its id to.
C12_CreatedPtyRegisteredUntilExit ==
    \A h \in DOMAIN localPtys :
       (ptyHistory[h].by = "create" /\ ~ptyHistory[h].exitSince) =>
          ptys[localPtys[h].id] = h

\* C13: attachToProcess(id) completes without throwing and without a
\* notification; when the host rejected, it returns undefined and leaves the
\* registry and the LocalPty instances as they were; when the host accepted,
\* it returns the LocalPty it has created for id, which the registry maps id to.
C13_AttachRejectedOrRegistered ==
    [][\A id \in SessionIds :
          (id \in pendingAttach /\ id \notin pendingAttach') =>
             /\ ~lastAttach'.threw
             /\ notifications' = notifications
             /\ ~lastAttach'.accepted =>
                   /\ lastAttach'.returned = "undefined"
                   /\ ptys' = ptys
                   /\ localPtys' = localPtys
             /\ lastAttach'.accepted =>
                   /\ lastAttach'.returned = "pty"
                   /\ localPtys' = Append(localPtys, NewLocalPty(id))
                   /\ ptyHistory'[Len(localPtys')].by = "attach"
                   /\ ptys' = [ptys EXCEPT ![id] = Len(localPtys')]
      ]_vars

\* The last attachToProcess was rejected and returned undefined while the
\* registry maps an id to the pty of an earlier, accepted attachToProcess.
C13_Witness ==
    /\ ~lastAttach.accepted
    /\ lastAttach.returned = "undefined"
    /\ \E i \in SessionIds :
          /\ ptys[i] # 0
          /\ ptyHistory[ptys[i]].by = "attach"

\* C14: acceptDetachInstanceReply called without a persistentProcessId sends
\* nothing to the pty host, logs one warning and completes without throwing.
C14_DetachReplyWithoutIdIsDropped ==
    [][(nDetach' = nDetach + 1 /\ ~lastDetach'.persistentProcessId.given) =>
          /\ hostCalls' = hostCalls
          /\ warnings' = warnings + 1
          /\ ~lastDetach'.threw
      ]_vars

\* A reply with an id was forwarded to the pty host, and the reply after it,
\* which had no id, was not.
C14_Witness ==
    /\ nDetach = 2
    /\ ~lastDetach.persistentProcessId.given
    /\ Len(hostCalls) = 1
    /\ hostCalls[1].op = "acceptDetachInstanceReply"
    /\ warnings = 1

\* The ids of the entries of a stored buffer state.
SerializedIds(stored) == {stored.state[k].id : k \in DOMAIN stored.state}

\* C15: persistTerminalState asks the pty host to serialize exactly the ids
\* registered when it is called, and when the host has replied it stores the
\* reply, the serialized state of those ids, under the buffer-state key.
C15_PersistSerializesRegisteredIds ==
    [][/\ nPersist' = nPersist + 1 =>
             /\ hostCalls' = Append(hostCalls,
                                    HostCall("serializeTerminalState",
                                             {i \in SessionIds : ptys[i] # 0}))
             /\ pendingPersist' = Append(pendingPersist, {i \in SessionIds : ptys[i] # 0})
             /\ bufferState' = bufferState
       /\ bufferState' # bufferState =>
             \E k \in DOMAIN pendingPersist :
                /\ pendingPersist' = WithoutCall(pendingPersist, k)
                /\ bufferState' \in HostSerializations(pendingPersist[k])
                /\ SerializedIds(bufferState') = pendingPersist[k]
      ]_vars

\* The state of two sessions was asked for and is stored, and one of the two
\* has exited meanwhile.
C15_Witness ==
    /\ bufferState.present
    /\ Cardinality(SerializedIds(bufferState)) = 2
    /\ Cardinality({i \in SessionIds : ptys[i] # 0}) = 1
    /\ hostCalls # << >>
    /\ hostCalls[1].op = "serializeTerminalState"
    /\ Cardinality(hostCalls[1].arg) = 2

\* C16: a getTerminalLayoutInfo call that finds a stored state without
\* 'version', without 'state', with a 'state' that is no array, or of a version
\* other than 1 sends nothing to reviveTerminalProcesses, throws nothing and
\* leaves the stored state as it is; the call has returned and stays so.
C16_MalformedStateIsNotRevived ==
    [][/\ (/\ Len(layoutCalls') = Len(layoutCalls) + 1
           /\ bufferState.present /\ bufferState.parses /\ bufferState.isObject
           /\ \/ ~bufferState.hasVersion
              \/ ~bufferState.hasState
              \/ ~bufferState.stateIsArray
              \/ bufferState.version # 1) =>
             LET call == layoutCalls'[Len(layoutCalls')]
             IN  /\ call.pc = "returned"
                 /\ ~call.revive.sent
                 /\ call.result = "undefined"
                 /\ bufferState' = bufferState
       /\ \A c \in DOMAIN layoutCalls :
             layoutCalls[c].pc = "returned" => layoutCalls'[c] = layoutCalls[c]
      ]_vars

\* Two calls found a stored state of version 2 with an entry; both returned
\* without a revival, and the state is still stored.
C16_Witness ==
    /\ bufferState.present
    /\ bufferState.version = 2
    /\ bufferState.state # << >>
    /\ Len(layoutCalls) = 2
    /\ \A c \in DOMAIN layoutCalls :
          /\ layoutCalls[c].pc = "returned"
          /\ layoutCalls[c].result = "undefined"
          /\ ~layoutCalls[c].revive.sent

\* C17: when the pty host has accepted a revival the stored state is removed in
\* the same step, and a call that starts after an accepted revival, with no
\* state stored by persistTerminalState in between, sends nothing to
\* reviveTerminalProcesses.
C17_RevivalIsOneShot ==
    [][/\ \A c \in DOMAIN layoutCalls :
             (~layoutCalls[c].revive.accepted /\ layoutCalls'[c].revive.accepted) =>
                ~bufferState'.present
       /\ \A c \in DOMAIN layoutCalls' :
             layoutCalls'[c].afterRevival => ~layoutCalls'[c].revive.sent
      ]_vars

\* The first call revived the stored session; the second call started after
\* that and has returned the host's layout info without a revival.
C17_Witness ==
    /\ Len(layoutCalls) = 2
    /\ layoutCalls[1].revive.accepted
    /\ layoutCalls[1].revive.state # << >>
    /\ layoutCalls[2].afterRevival
    /\ layoutCalls[2].pc = "returned"
    /\ layoutCalls[2].result = "hostLayoutInfo"
    /\ ~layoutCalls[2].revive.sent
    /\ ~bufferState.present

\* C18: a call sends the stored layout to setTerminalLayoutInfo only in the
\* step in which the pty host accepts its revival, and at most once; it does
\* so whenever a layout is stored then; and when the host has taken the
\* layout, the stored layout is removed.
C18_LayoutSentOnceAfterRevive ==
    [][\A c \in DOMAIN layoutCalls :
          LET old == layoutCalls[c]
              new == layoutCalls'[c]
          IN  /\ new.layoutSent # old.layoutSent =>
                    /\ old.pc = "reviveTerminalProcesses"
                    /\ old.revive.sent
                    /\ new.revive.accepted
                    /\ old.layoutSent = 0
                    /\ new.layoutSent = 1
              /\ (~old.revive.accepted /\ new.revive.accepted
                     /\ layoutState.present /\ layoutState.parses) =>
                    /\ new.pc = "setTerminalLayoutInfo"
                    /\ new.layoutSent = 1
              /\ (old.pc = "setTerminalLayoutInfo" /\ new.pc # old.pc /\ ~new.caught) =>
                    ~layoutState'.present
      ]_vars

\* A call has revived the stored sessions, sent the stored layout once, and
\* returned; neither the state nor the layout is stored any more.
C18_Witness ==
    \E c \in DOMAIN layoutCalls :
       /\ layoutCalls[c].revive.accepted
       /\ layoutCalls[c].revive.state # << >>
       /\ layoutCalls[c].layoutSent = 1
       /\ layoutCalls[c].pc = "returned"
       /\ ~layoutCalls[c].caught
       /\ ~layoutState.present
       /\ ~bufferState.present

\* C19: a call whose revival has thrown (parsing the stored state, resolving
\* an environment, the host's reviveTerminalProcesses or the layout call)
\* goes on to ask the pty host for the layout info, and what it returns or
\* throws is the host's reply to that request.
C19_RevivalFailureIsSwallowed ==
    \A c \in DOMAIN layoutCalls :
       layoutCalls[c].caught =>
          \/ /\ layoutCalls[c].pc = "getTerminalLayoutInfo"
             /\ layoutCalls[c].result = "pending"
          \/ /\ layoutCalls[c].pc = "returned"
             /\ layoutCalls[c].result \in {"hostLayoutInfo", "hostRejection"}

\* One call's reviveTerminalProcesses was rejected by the host, the other
\* call's setTerminalLayoutInfo was; both returned the host's layout info.
C19_Witness ==
    /\ Len(layoutCalls) = 2
    /\ \A c \in DOMAIN layoutCalls :
          /\ layoutCalls[c].caught
          /\ layoutCalls[c].pc = "returned"
          /\ layoutCalls[c].result = "hostLayoutInfo"
    /\ \E c \in DOMAIN layoutCalls :
          layoutCalls[c].revive.sent /\ ~layoutCalls[c].revive.accepted
    /\ \E c \in DOMAIN layoutCalls :
          layoutCalls[c].revive.accepted /\ layoutCalls[c].layoutSent = 1

\* C20: every entry a call passes to reviveTerminalProcesses carries an
\* environment that this call has resolved, never the stored one.
C20_RevivedEntriesHaveFreshEnv ==
    \A c \in DOMAIN layoutCalls :
       layoutCalls[c].revive.sent =>
          \A k \in DOMAIN layoutCalls[c].revive.state :
             /\ layoutCalls[c].revive.state[k].env.resolvedBy = c
             /\ layoutCalls[c].revive.state[k].env # SnapshotEnv

\* Two calls have each passed the two stored entries to the host.
C20_Witness ==
    /\ Len(layoutCalls) = 2
    /\ \A c \in DOMAIN layoutCalls :
          /\ layoutCalls[c].revive.sent
          /\ Len(layoutCalls[c].revive.state) = 2

\* C21: what persistTerminalState stored for the ids of the registry comes
\* back on revival.  The stored state of a well-formed blob is the pty host's
\* serialization of an id set, in the host's order; a call that passes a state
\* to reviveTerminalProcesses passes as many entries as it read, in the same
\* order, each with the id and the launch configuration it was stored with:
\* only the environment of an entry may differ.
C21_RevivalPassesStoredEntries ==
    \A c \in 1..Len(layoutCalls) :
        LET call == layoutCalls[c]
        IN  call.revive.sent =>
              /\ \E ids \in SUBSET SessionIds :
                     \E blob \in HostSerializations(ids) : blob.state = call.stored
              /\ Len(call.revive.state) = Len(call.stored)
              /\ \A k \in 1..Len(call.stored) :
                     [call.revive.state[k] EXCEPT !.env = call.stored[k].env]
                       = call.stored[k]

\* A call passed both stored entries to the pty host, with the environment of
\* each replaced, and the host accepted them.
C21_Witness ==
    \E c \in 1..Len(layoutCalls) :
        LET call == layoutCalls[c]
        IN  /\ call.revive.sent /\ call.revive.accepted
            /\ Len(call.stored) = 2
            /\ \A k \in 1..2 : call.revive.state[k].env # call.stored[k].env

\* The notifications still open.
OpenNotifications == {n \in DOMAIN notifications : notifications[n].open}

\* C22: after a Responsive or Restart signal no unresponsive notification is
\* open, whatever signals came before it, several Unresponsive signals in a
\* row included.
C22_NoNotificationOpenAfterRecovery ==
    lastHostSignal \in {"responsive", "start"} => OpenNotifications = {}

\* C23: a Responsive signal received while the host counts as responsive
\* changes nothing but the count of the signals: no notification is closed,
\* onPtyHostResponsive does not fire, nothing is logged.  The event fires
\* only in a step that takes the host from unresponsive to responsive, once.
C23_RedundantResponsiveIsNoOp ==
    [][/\ (/\ nHostSignals' = nHostSignals + 1
           /\ lastHostSignal' = "responsive"
           /\ ~isPtyHostUnresponsive)
          => UNCHANGED << supVars, ptyVars, backendVars, serviceVars,
                          isPtyHostUnresponsive,
                          unresponsiveNotification, ptyHostFired, ptyHostLog >>
       /\ ptyHostFired'.responsive # ptyHostFired.responsive
          => /\ ptyHostFired'.responsive = ptyHostFired.responsive + 1
             /\ isPtyHostUnresponsive /\ ~isPtyHostUnresponsive']_vars

\* A Responsive signal has dismissed a notification, and a second Responsive
\* signal followed it.
C23_Witness ==
    /\ lastHostSignal = "responsive"
    /\ ptyHostFired.responsive = 1
    /\ ptyHostFired.unresponsive = 1
    /\ ptyHostFired.restart = 0
    /\ ptyHostLog.error = 0
    /\ nHostSignals = 3
    /\ notifications = << [UnresponsivePrompt EXCEPT !.open = FALSE] >>

\* A step in which startExtensionHostProcess is called.
StartStep ==
    initializeExtensionHostProcess = "none" /\ initializeExtensionHostProcess' = "pending"

\* The startup warning is shown only by the expiring timer, only before the
\* child's 'ready' has been received, and the step that shows it leaves the
\* promise, the handle, the readiness, the backlog and everything sent alone.
WarningOnlyBeforeReady ==
    /\ startupWarnings' # startupWarnings
       => /\ startupWarnings' = startupWarnings + 1
          /\ initializeTimer = "armed" /\ initializeTimer' = "fired"
          /\ Occurrences(childLog, "ready") = 0
          /\ UNCHANGED << initializeExtensionHostProcess, promiseListeners,
                          extensionHostProcessHandle, extensionHostProcessReady,
                          unsentMessages, terminating, sentToChild, initPayloadsSent,
                          terminateSentinels, callbackCount, logCount, childLog,
                          reactionVars, errorNotifications >>
    /\ Occurrences(childLog, "ready") > 0 => initializeTimer' # "armed"

\* C24 as stated: every startExtensionHostProcess starts the startup timer;
\* a timer that expires before 'ready' shows a warning and changes nothing
\* else; once 'ready' has arrived no warning is shown.
C24_StartArmsTimer ==
    [][(StartStep => initializeTimer' = "armed") /\ WarningOnlyBeforeReady]_vars

\* C24, amended: startExtensionHostProcess starts the startup timer exactly
\* when the product is not built or runs in extension development; a timer
\* that expires before 'ready' shows a warning and changes nothing else; once
\* 'ready' has arrived no warning is shown.
C24_StartArmsTimerInDevelopment ==
    [][/\ StartStep
          => (initializeTimer' = "armed"
                <=> (~environment.isBuilt \/ isExtensionDevelopmentHost))
       /\ WarningOnlyBeforeReady]_vars

\* The timer expired before 'ready', the warning was shown, and the handshake
\* went on to readiness.
C24_Witness ==
    /\ startupWarnings = 1
    /\ initializeTimer = "fired"
    /\ childLog = << "ready", "initialized" >>
    /\ initPayloadsSent = 1
    /\ extensionHostProcessReady

\* C25: a spawn failure is surfaced to the user once.  The forked handle
\* signals one error and one exit, the child sends nothing and terminate()
\* has not been called: one notification has been shown, not one for the
\* error and another for the exit.
C25_SpawnFailureSurfacedOnce ==
    (/\ extensionHostProcessHandle = "forked"
     /\ childLog = << >>
     /\ nErrors = 1 /\ nExits = 1 /\ nTerminate = 0)
    => errorNotifications + crashNotifications = 1

\* C26: a resolution that stalls for one entry does not block the others.  A
\* call that has resolved the environment of an entry and awaits the stalled
\* resolution of another passes the resolved entry to reviveTerminalProcesses
\* in the end.
C26_StalledEntryDoesNotBlockOthers ==
    \A c \in 1..MaxLayoutCalls :
        (/\ c \in DOMAIN layoutCalls
         /\ layoutCalls[c].pc = "resolveEnvironment"
         /\ layoutCalls[c].resolved >= 1)
        ~> (c \in DOMAIN layoutCalls /\ layoutCalls[c].revive.sent)

\* C27: a stored state that fails the format or the version check aborts the
\* revival only.  While such a state is in storage, every getTerminalLayoutInfo
\* call that has returned has asked the pty host for the layout, and its
\* outcome is the host's reply.
C27_RejectedStateStillQueriesHost ==
    (/\ bufferState.present
     /\ ~ParseThrows(bufferState)
     /\ WrongFormat(bufferState) \/ WrongVersion(bufferState))
    => \A c \in 1..Len(layoutCalls) :
          layoutCalls[c].pc = "returned"
            => layoutCalls[c].result \in {"hostLayoutInfo", "hostRejection"}

\* C28: the terminate sentinel is sent only to a child that is alive: only
\* once the child has been forked, and never after its exit.
C28_SentinelOnlyToLiveChild ==
    [][terminateSentinels' # terminateSentinels
         => extensionHostProcessHandle = "forked" /\ nExits = 0]_vars

\* C29: an error event is shown exactly when its text differs from that of
\* the last reported error.  After the handler lastExtensionHostError is the
\* text of the event it handled, so the event's text differed exactly when
\* the field changed: one more notification in that case, none otherwise, and
\* nothing but onError shows an error notification.
C29_ErrorShownIffTextDiffers ==
    [][/\ nErrors' = nErrors + 1
          => /\ lastExtensionHostError' \in ErrorTexts
             /\ errorNotifications' =
                  IF lastExtensionHostError' # lastExtensionHostError
                    THEN errorNotifications + 1 ELSE errorNotifications
       /\ nErrors' = nErrors
          => UNCHANGED << errorNotifications, lastExtensionHostError >>]_vars

\* Three errors, each with a text other than the one before it, the third
\* with the text of the first: all three were shown.
C29_Witness ==
    /\ nErrors = 3
    /\ errorNotifications = 3
    /\ lastExtensionHostError = "e1"

\* C30: a logging entry from the child goes to the logging sink and never to
\* the callback, whatever the state of the handshake, and its receipt leaves
\* the readiness, the promise and its done-callbacks, the backlog and
\* everything sent to the child as they were; nothing else is logged.
C30_LogEntryOnlyLogged ==
    [][/\ ChildMsgStep("log")
          => /\ logCount' = logCount + 1
             /\ UNCHANGED << callbackCount, extensionHostProcessReady,
                             initializeExtensionHostProcess, promiseListeners,
                             unsentMessages, sentToChild, initPayloadsSent,
                             initializeTimer, nPreReady >>
       /\ logCount' # logCount => ChildMsgStep("log")]_vars

\* Logging entries were received before the handshake and after readiness;
\* both were logged and the callback was never called.
C30_Witness ==
    /\ childLog = << "log", "initialized", "log" >>
    /\ extensionHostProcessReady
    /\ logCount = 2
    /\ callbackCount = 0

\* C31: in the state a call passes to reviveTerminalProcesses, the merged
\* environment variable collection has been applied to an entry's environment
\* exactly when the entry's launch configuration has neither strictEnv nor
\* hideFromUser set.
C31_CollectionAppliedUnlessStrictOrHidden ==
    \A c \in DOMAIN layoutCalls :
       layoutCalls[c].revive.sent =>
          \A k \in DOMAIN layoutCalls[c].revive.state :
             LET entry == layoutCalls[c].revive.state[k]
             IN  entry.env.collection
                   <=> (/\ ~entry.shellLaunchConfig.strictEnv
                        /\ ~entry.shellLaunchConfig.hideFromUser)

\* A call has passed on the entry of a terminal that is hidden from the user
\* and not strict, with an environment the collection was not applied to.
C31_Witness ==
    \E c \in DOMAIN layoutCalls :
       /\ layoutCalls[c].revive.sent
       /\ Len(layoutCalls[c].revive.state) = 1
       /\ layoutCalls[c].revive.state[1].shellLaunchConfig.hideFromUser
       /\ ~layoutCalls[c].revive.state[1].shellLaunchConfig.strictEnv
       /\ layoutCalls[c].revive.state[1].env.resolvedBy = c
       /\ ~layoutCalls[c].revive.state[1].env.collection

\* C33: a setTerminalLayoutInfo call that returns has written the layout
\* blob.  In the step in which it returns the stored value becomes the JSON of
\* the arguments the call sent to the pty host: the workspace's id and the
\* tabs of the layout it was given, the empty list when it was given none.
\* A call that does not return leaves the stored value alone.
C33_LayoutStoredAsSent ==
    [][\A c \in DOMAIN setLayoutCalls :
          setLayoutCalls[c].pc = "setTerminalLayoutInfo" =>
            /\ setLayoutCalls'[c].pc = "returned"
               => /\ layoutState'.present /\ layoutState'.parses
                  /\ layoutState'.args = setLayoutCalls[c].sent
                  /\ layoutState'.args.workspaceId = "workspace"
                  /\ layoutState'.args.tabs =
                       IF setLayoutCalls[c].layoutInfo.given
                         THEN setLayoutCalls[c].layoutInfo.tabs ELSE 0
            /\ setLayoutCalls'[c].pc = "threw" => layoutState' = layoutState]_vars

\* A call with two tabs returned after a call without a layout; the stored
\* layout is that of the call that returned last, the one with no tabs.
C33_Witness ==
    /\ Len(setLayoutCalls) = 2
    /\ setLayoutCalls[1].pc = "returned" /\ ~setLayoutCalls[1].layoutInfo.given
    /\ setLayoutCalls[2].pc = "returned" /\ setLayoutCalls[2].layoutInfo.tabs = 2
    /\ layoutState.present /\ layoutState.args.tabs = 0

\* C32: the set of registered ids changes only when a createProcess or an
\* attachToProcess call registers the pty it created, which adds that pty's
\* id, and when an exit event is dispatched, which removes the event's id.
\* The steps of persistTerminalState, getTerminalLayoutInfo,
\* setTerminalLayoutInfo, updateTitle, updateIcon and updateProperty, the
\* events other than exit and the health signals leave the set as it is.
C32_RegistryChangesOnlyByCreateAttachExit ==
    [][/\ RegisteredIds' # RegisteredIds
          => \/ /\ Len(localPtys') = Len(localPtys) + 1
                /\ \/ pendingCreate' = pendingCreate - 1
                   \/ pendingAttach' = pendingAttach \ {localPtys'[Len(localPtys')].id}
                /\ RegisteredIds' = RegisteredIds \cup {localPtys'[Len(localPtys')].id}
             \/ /\ nPtyEvents' = nPtyEvents + 1
                /\ lastPtyEvent'.kind = "exit"
                /\ RegisteredIds' = RegisteredIds \ {lastPtyEvent'.id}
       /\ (\/ nPersist' # nPersist
           \/ pendingPersist' # pendingPersist
           \/ layoutCalls' # layoutCalls
           \/ setLayoutCalls' # setLayoutCalls
           \/ nUpdates' # nUpdates
           \/ nHostSignals' # nHostSignals
           \/ nPtyEvents' # nPtyEvents /\ lastPtyEvent'.kind # "exit")
          => RegisteredIds' = RegisteredIds]_vars

\* A session was created and the state an earlier window left was revived;
\* the session is still the one registered.
C32_Witness ==
    /\ Len(localPtys) = 1
    /\ RegisteredIds = {localPtys[1].id}
    /\ Len(layoutCalls) = 1
    /\ layoutCalls[1].revive.accepted
    /\ Len(layoutCalls[1].revive.state) = 1

\* C34: the state one persistTerminalState left in storage is passed to
\* reviveTerminalProcesses by at most one getTerminalLayoutInfo call, however
\* the calls interleave.  No state is stored while the calls run, so every
\* call that revives has read the same blob.
C34_BlobRevivedAtMostOnce ==
    Cardinality({c \in DOMAIN layoutCalls : layoutCalls[c].revive.sent}) <= 1

\* C35: once no createProcess and no attachToProcess call is pending, the
\* registry holds no handle for a session whose exit event was received after
\* the pty host created or attached it: neither one whose exit event came
\* after the handle was registered, nor one whose exit event came while the
\* attachToProcess call that the host accepted was still awaiting the reply.
C35_NoHandleLeftForExitedSession ==
    (pendingCreate = 0 /\ pendingAttach = {}) =>
       \A h \in DOMAIN localPtys :
          (ptyHistory[h].exitSince \/ ptyHistory[h].exitAwaited) =>
             ptys[localPtys[h].id] # h

\* C36: terminate() called after startExtensionHostProcess reaches the child.
\* terminate() is the only sender of the sentinel and no step of the
\* supervisor repeats it, so a child is told about a terminate() call by the
\* time it runs or not at all: whenever terminate() has been called since the
\* start and the child has been forked, the sentinel has been sent.
C36_TerminateReachesSpawnedChild ==
    (terminateSinceStart /\ extensionHostProcessHandle = "forked")
       => terminateSentinels > 0

\* C37: the flag _isPtyHostUnresponsive is true exactly when the listeners
\* hold a notification handle.  onPtyHostResponsive fires only in the step of
\* a Responsive signal that follows an Unresponsive signal with no Responsive
\* and no Restart signal in between, and once in such a step; a Restart signal
\* fires onPtyHostRestart once and never onPtyHostResponsive.
C37_FlagMatchesHandle ==
    /\ [](isPtyHostUnresponsive <=> unresponsiveNotification # 0)
    /\ [][/\ ptyHostFired'.responsive # ptyHostFired.responsive
             => /\ nHostSignals' = nHostSignals + 1
                /\ lastHostSignal' = "responsive"
                /\ unresponsiveSince
                /\ ptyHostFired'.responsive = ptyHostFired.responsive + 1
          /\ (nHostSignals' = nHostSignals + 1 /\ lastHostSignal' = "start")
             => /\ ptyHostFired'.restart = ptyHostFired.restart + 1
                /\ ptyHostFired'.responsive = ptyHostFired.responsive]_vars

\* Unresponsive, Restart, Unresponsive, Responsive: the recovery was announced
\* once, the restart once, and no handle is held.
C37_Witness ==
    /\ nHostSignals = 4
    /\ lastHostSignal = "responsive"
    /\ ptyHostFired = [ptyHostFired EXCEPT !.unresponsive = 2, !.restart = 1,
                                           !.responsive = 1]
    /\ ~isPtyHostUnresponsive
    /\ unresponsiveNotification = 0

\* C38: once every handler of a configuration change has returned, the auto
\* replies installed on the pty host are those of the configuration as it is
\* now, whatever the changes were and however their handlers overlapped.
C38_HostHasLatestAutoReplies ==
    (\A h \in DOMAIN installHandlers : installHandlers[h].pc = "returned")
       => hostAutoReplies = autoRepliesConfig

\* The requests that have been answered.
AnsweredRequests == {resolvedReplies[k].request : k \in DOMAIN resolvedReplies}

\* C39: only requests of the current workspace are answered: a request of
\* another workspace gets no reply and its handler has returned at once.  An
\* answered request has exactly one reply, which carries the request's
\* requestId and one resolved value per original text, in the order of the
\* texts.
C39_OnlyOwnWorkspaceAnswered ==
    /\ \A r \in DOMAIN resolveRequests :
          resolveRequests[r].e.workspaceId # CurrentWorkspaceId
            => r \notin AnsweredRequests /\ resolveRequests[r].pc = "returned"
    /\ \A k \in DOMAIN resolvedReplies :
          LET reply == resolvedReplies[k]
              e == resolveRequests[reply.request].e
          IN  /\ e.workspaceId = CurrentWorkspaceId
              /\ reply.requestId = e.requestId
              /\ Len(reply.result) = Len(e.originalText)
              /\ \A i \in 1..Len(e.originalText) :
                    reply.result[i] = resolveAsync(e.originalText[i])
              /\ \A j \in DOMAIN resolvedReplies :
                    resolvedReplies[j].request = reply.request => j = k

\* Two requests with different ids overlapped: the one of this workspace, for
\* two texts, was answered after the one of another workspace was dropped.
C39_Witness ==
    /\ Len(resolveRequests) = 2
    /\ resolveRequests[1].e.workspaceId = CurrentWorkspaceId
    /\ resolveRequests[1].e.originalText = << "t2", "t1" >>
    /\ resolveRequests[2].e.workspaceId # CurrentWorkspaceId
    /\ resolveRequests[2].e.requestId # resolveRequests[1].e.requestId
    /\ Len(resolvedReplies) = 1
    /\ resolvedReplies[1].request = 1

\* C40: acceptDetachInstanceReply called with a persistentProcessId, 0
\* included, forwards the reply to the pty host once, with the requestId and
\* the id it was given, and logs no warning; only a call without an id is
\* dropped.
C40_DetachReplyWithAnyIdIsForwarded ==
    [][(nDetach' = nDetach + 1 /\ lastDetach'.persistentProcessId.given) =>
          /\ hostCalls' = Append(hostCalls,
                                 HostCall("acceptDetachInstanceReply",
                                          << lastDetach'.requestId,
                                             lastDetach'.persistentProcessId.value >>))
          /\ warnings' = warnings
      ]_vars

====
